---- MODULE Spec2Model ----
(***************************************************************************)
(* Research assistant bot: the free-text message handler of               *)
(* app/services/telegram_bot.py with the task and pending-task tables of  *)
(* app/services/task_service.py and the parser of app/task_parser.py.     *)
(*                                                                         *)
(* Text is a sequence of characters, each character a string atom.  The   *)
(* Turkish letters are written with a trailing "~":                       *)
(*   "o~" o-umlaut   "u~" u-umlaut   "i~" dotless i   "s~" s-cedilla       *)
(*   "c~" c-cedilla  "g~" soft g     "I~" capital dotted I, and so on.     *)
(* Instants are minutes of local time counted from Monday 2024-01-01      *)
(* 00:00.                                                                  *)
(***************************************************************************)
EXTENDS Integers, Sequences, FiniteSets, TLC

(***************************************************************************)
(* Characters and strings (Python str)                                     *)
(***************************************************************************)

\* Python's None, by the type of the value that is absent: a chat id or a
\* setting, a str, an instant or an id, a table row
None == "None"

NoText == <<None>>

NoTime == 0 - 1

NoRow == [id |-> 0]

NoId == NoRow.id

SP == " "

BSL == "\\"

LowerLetters ==
    {"a","b","c","d","e","f","g","h","i","j","k","l","m","n","o","p","q","r",
     "s","t","u","v","w","x","y","z","c~","g~","i~","o~","s~","u~"}

UpperLetters ==
    {"A","B","C","D","E","F","G","H","I","J","K","L","M","N","O","P","Q","R",
     "S","T","U","V","W","X","Y","Z","C~","G~","I~","O~","S~","U~"}

Digits == {"0","1","2","3","4","5","6","7","8","9"}

\* re: \w on str patterns (letters of any script, digits, underscore)
IsWordChar(c) == c \in LowerLetters \cup UpperLetters \cup Digits \cup {"_"}

\* re: \s
IsSpace(c) == c = SP

\* str.lower() of one character; capital dotted I lowers to "i" followed by
\* the combining dot U+0307, written "^."
LowerCh(c) ==
    CASE c = "A" -> <<"a">> [] c = "B" -> <<"b">> [] c = "C" -> <<"c">>
      [] c = "D" -> <<"d">> [] c = "E" -> <<"e">> [] c = "F" -> <<"f">>
      [] c = "G" -> <<"g">> [] c = "H" -> <<"h">> [] c = "I" -> <<"i">>
      [] c = "J" -> <<"j">> [] c = "K" -> <<"k">> [] c = "L" -> <<"l">>
      [] c = "M" -> <<"m">> [] c = "N" -> <<"n">> [] c = "O" -> <<"o">>
      [] c = "P" -> <<"p">> [] c = "Q" -> <<"q">> [] c = "R" -> <<"r">>
      [] c = "S" -> <<"s">> [] c = "T" -> <<"t">> [] c = "U" -> <<"u">>
      [] c = "V" -> <<"v">> [] c = "W" -> <<"w">> [] c = "X" -> <<"x">>
      [] c = "Y" -> <<"y">> [] c = "Z" -> <<"z">>
      [] c = "C~" -> <<"c~">> [] c = "G~" -> <<"g~">> [] c = "O~" -> <<"o~">>
      [] c = "S~" -> <<"s~">> [] c = "U~" -> <<"u~">>
      [] c = "I~" -> <<"i", "^.">>
      [] OTHER -> <<c>>

\* str.upper() of one character, as str.capitalize() applies it to the first
UpperCh(c) ==
    CASE c = "a" -> "A" [] c = "b" -> "B" [] c = "c" -> "C" [] c = "d" -> "D"
      [] c = "e" -> "E" [] c = "f" -> "F" [] c = "g" -> "G" [] c = "h" -> "H"
      [] c = "i" -> "I" [] c = "j" -> "J" [] c = "k" -> "K" [] c = "l" -> "L"
      [] c = "m" -> "M" [] c = "n" -> "N" [] c = "o" -> "O" [] c = "p" -> "P"
      [] c = "q" -> "Q" [] c = "r" -> "R" [] c = "s" -> "S" [] c = "t" -> "T"
      [] c = "u" -> "U" [] c = "v" -> "V" [] c = "w" -> "W" [] c = "x" -> "X"
      [] c = "y" -> "Y" [] c = "z" -> "Z"
      [] c = "c~" -> "C~" [] c = "g~" -> "G~" [] c = "o~" -> "O~"
      [] c = "s~" -> "S~" [] c = "u~" -> "U~" [] c = "i~" -> "I"
      [] OTHER -> c

RECURSIVE Lower(_)
\* str.lower()
Lower(t) == IF t = <<>> THEN <<>> ELSE LowerCh(Head(t)) \o Lower(Tail(t))

\* t[i:] starts with w (i is 1-based)
MatchAt(t, i, w) ==
    /\ i >= 1
    /\ i + Len(w) - 1 <= Len(t)
    /\ SubSeq(t, i, i + Len(w) - 1) = w

\* `w in t`
Contains(t, w) == \E i \in 1..(Len(t) + 1) : MatchAt(t, i, w)

\* any(word in t for word in words)
ContainsAny(t, words) == \E k \in 1..Len(words) : Contains(t, words[k])

\* str.endswith
EndsWith(t, w) == Len(w) <= Len(t) /\ SubSeq(t, Len(t) - Len(w) + 1, Len(t)) = w

RECURSIVE ReplaceFrom(_, _, _, _)
\* str.replace(old, new) from position i on: every non-overlapping occurrence,
\* left to right (old is never empty here)
ReplaceFrom(t, i, old, new) ==
    IF i > Len(t) THEN <<>>
    ELSE IF MatchAt(t, i, old) THEN new \o ReplaceFrom(t, i + Len(old), old, new)
    ELSE <<t[i]>> \o ReplaceFrom(t, i + 1, old, new)

Replace(t, old, new) == ReplaceFrom(t, 1, old, new)

RECURSIVE LStrip(_)
LStrip(t) == IF t /= <<>> /\ IsSpace(Head(t)) THEN LStrip(Tail(t)) ELSE t

RECURSIVE RStrip(_)
RStrip(t) ==
    IF t /= <<>> /\ IsSpace(t[Len(t)]) THEN RStrip(SubSeq(t, 1, Len(t) - 1)) ELSE t

\* str.strip()
Strip(t) == RStrip(LStrip(t))

RECURSIVE CollapseFrom(_, _)
\* re.sub(r"\s+", " ", t) from position i on
CollapseFrom(t, i) ==
    IF i > Len(t) THEN <<>>
    ELSE IF IsSpace(t[i])
         THEN IF i > 1 /\ IsSpace(t[i - 1]) THEN CollapseFrom(t, i + 1)
              ELSE <<SP>> \o CollapseFrom(t, i + 1)
    ELSE <<t[i]>> \o CollapseFrom(t, i + 1)

CollapseSpaces(t) == CollapseFrom(t, 1)

\* re: \b between t[i-1] and t[i]
WordBoundary(t, i) ==
    LET before == i > 1 /\ i - 1 <= Len(t) /\ IsWordChar(t[i - 1])
        after == i >= 1 /\ i <= Len(t) /\ IsWordChar(t[i])
    IN before /= after

\* simple case folding of re.IGNORECASE: i, I, dotless i and dotted I are one
CaseFold(c) == IF c \in {"i", "I", "i~", "I~"} THEN "i" ELSE Head(LowerCh(c))

\* t[i:] starts with w; ci: compared as re.IGNORECASE compares
MatchAtCase(t, i, w, ci) ==
    IF ci
    THEN /\ i >= 1
         /\ i + Len(w) - 1 <= Len(t)
         /\ \A k \in 1..Len(w) : CaseFold(t[i + k - 1]) = CaseFold(w[k])
    ELSE MatchAt(t, i, w)

\* the least number of a set of positive numbers, or 0: the leftmost match, the
\* first alternative
Least(S) == IF S = {} THEN 0 ELSE CHOOSE k \in S : \A j \in S : k <= j

\* the first alternative of \b(w1|w2|...)\b that matches at i, or 0
WordAltAt(t, i, words, ci) ==
    Least({k \in 1..Len(words) :
              /\ MatchAtCase(t, i, words[k], ci)
              /\ WordBoundary(t, i)
              /\ WordBoundary(t, i + Len(words[k]))})

RECURSIVE SubWordsFrom(_, _, _, _, _)
\* re.sub(r"\b(w1|w2|...)\b", repl, t) from position i on
SubWordsFrom(t, i, words, repl, ci) ==
    IF i > Len(t) THEN <<>>
    ELSE LET k == WordAltAt(t, i, words, ci)
         IN IF k > 0 THEN repl \o SubWordsFrom(t, i + Len(words[k]), words, repl, ci)
            ELSE <<t[i]>> \o SubWordsFrom(t, i + 1, words, repl, ci)

SubWords(t, words, repl) == SubWordsFrom(t, 1, words, repl, FALSE)

\* the same with flags=re.IGNORECASE
SubWordsIgnoreCase(t, words, repl) == SubWordsFrom(t, 1, words, repl, TRUE)

(***************************************************************************)
(* Keyword lists of the handler, the parser and the normalizer             *)
(***************************************************************************)

SUMMARY_WORDS ==
    <<<<"o~","z","e","t">>, <<"o","z","e","t">>,
      <<"s","u","m","m","a","r","y">>, <<"r","a","p","o","r">>,
      <<"d","u","r","u","m">>>>

TEMPLATE_WORDS ==
    <<<<"s~","a","b","l","o","n">>, <<"t","e","m","p","l","a","t","e">>,
      <<"o~","r","n","e","k">>>>

DELETE_WORDS ==
    <<<<"s","i","l">>, <<"k","a","l","d","i~","r">>,
      <<"i","p","t","a","l"," ","e","t">>, <<"s","i","l","m","e","k">>>>

COMPLETE_WORDS ==
    <<<<"t","a","m","a","m","l","a","n","d","i~">>,
      <<"t","a","m","a","m","l","a","d","i~","m">>,
      <<"t","a","m","a","m","l","a">>, <<"b","i","t","i","r","d","i","m">>,
      <<"b","i","t","t","i">>>>

\* the action words handle_message passes to _extract_action_query
COMPLETE_ACTION_WORDS ==
    <<<<"t","a","m","a","m","l","a">>,
      <<"t","a","m","a","m","l","a","n","d","i~">>,
      <<"t","a","m","a","m","l","a","d","i~","m">>,
      <<"b","i","t","i","r","d","i","m">>, <<"b","i","t","t","i">>>>

TASK_KEYWORDS ==
    <<<<"h","a","t","i~","r","l","a","t">>,
      <<"h","a","t","i","r","l","a","t">>,
      <<"t","o","p","l","a","n","t","i~">>,
      <<"t","o","p","l","a","n","t","i">>,
      <<"d","e","a","d","l","i","n","e">>, <<"b","i","t","i","r">>,
      <<"y","a","p">>, <<"g","o~","r","e","v">>, <<"g","o","r","e","v">>,
      <<"o~","d","e","v">>, <<"o","d","e","v">>, <<"t","e","z">>,
      <<"t","h","e","s","i","s">>, <<"p","r","o","p","o","s","a","l">>,
      <<"s","u","n","u","m">>, <<"m","a","k","a","l","e">>,
      <<"o","k","u","m","a">>, <<"o","k","u","m","a","k">>>>

LIST_WORDS ==
    <<<<"l","i","s","t","e","l","e">>, <<"g","o~","r","e","v">>,
      <<"l","i","s","t","e">>>>

GREETING_WORDS ==
    <<<<"m","e","r","h","a","b","a">>, <<"s","e","l","a","m">>,
      <<"n","a","b","e","r">>, <<"n","a","s","i~","l","s","i~","n">>,
      <<"n","a","s","i","l","s","i","n">>>>

THANKS_WORDS ==
    <<<<"t","e","s~","e","k","k","u~","r">>,
      <<"t","e","s","e","k","k","u","r">>, <<"s","a","g~"," ","o","l">>,
      <<"s","a","g"," ","o","l">>>>

WHOAMI_WORDS ==
    <<<<"k","i","m","s","i","n">>, <<"n","e","s","i","n">>,
      <<"n","e"," ","y","a","p","a","r","s","i~","n">>>>

\* _strip_filler's alternation
FILLER_WORDS ==
    <<<<"h","a","t","i~","r","l","a","t">>,
      <<"h","a","t","i","r","l","a","t">>, <<"l","u~","t","f","e","n">>,
      <<"l","u","t","f","e","n">>>>

\* _normalize_task_title's first alternation
TITLE_STRIP_1 ==
    <<<<"b","a","n","a">>, <<"b","e","n","i">>, <<"b","i","z","e">>,
      <<"b","i","z","i","m">>, <<"l","u~","t","f","e","n">>,
      <<"l","u","t","f","e","n">>, <<"h","a","t","i~","r","l","a","t">>,
      <<"h","a","t","i","r","l","a","t">>>>

\* _normalize_task_title's second alternation
TITLE_STRIP_2 ==
    <<<<"s~","u","n","u">>, <<"s~","u">>, <<"b","u","n","u">>,
      <<"b","a","n","a">>, <<"b","e","n","i">>,
      <<"h","a","t","i~","r","l","a","t","m","a">>,
      <<"h","a","t","i","r","l","a","t","m","a">>, <<"g","o~","r","e","v">>,
      <<"g","o~","r","e","v","i">>>>

\* _extract_action_query's alternation
QUERY_STRIP ==
    <<<<"s~","u">>, <<"b","u","n","u">>, <<"s~","u","n","u">>, <<"b","u">>,
      <<"o">>, <<"h","a","t","i~","r","l","a","t","m","a">>,
      <<"h","a","t","i","r","l","a","t","m","a">>, <<"g","o~","r","e","v">>,
      <<"g","o~","r","e","v","i">>,
      <<"h","a","t","i~","r","l","a","t","m","a","y","i~">>,
      <<"h","a","t","i","r","l","a","t","m","a","y","i">>>>

\* the replacements table, keys in insertion order
REPL_SRC ==
    <<<<"y","a","p","a","c","a","g~","i~","m","i~">>,
      <<"y","a","p","a","c","a","g~","i~","m">>,
      <<"g","i","d","e","c","e","g~","i","m","i">>,
      <<"g","i","d","e","c","e","g~","i","m">>,
      <<"t","a","m","a","m","l","a","y","a","c","a","g~","i~","m","i~">>,
      <<"t","a","m","a","m","l","a","y","a","c","a","g~","i~","m">>,
      <<"h","a","z","i~","r","l","a","y","a","c","a","g~","i~","m","i~">>,
      <<"h","a","z","i~","r","l","a","y","a","c","a","g~","i~","m">>,
      <<"g","o~","n","d","e","r","e","c","e","g~","i","m","i">>,
      <<"g","o~","n","d","e","r","e","c","e","g~","i","m">>>>

\* the replacements table, values
REPL_DST ==
    <<<<"y","a","p","i~","l","a","c","a","k">>,
      <<"y","a","p","i~","l","a","c","a","k">>,
      <<"g","i","d","i","l","e","c","e","k">>,
      <<"g","i","d","i","l","e","c","e","k">>,
      <<"t","a","m","a","m","l","a","n","a","c","a","k">>,
      <<"t","a","m","a","m","l","a","n","a","c","a","k">>,
      <<"h","a","z","i~","r","l","a","n","a","c","a","k">>,
      <<"h","a","z","i~","r","l","a","n","a","c","a","k">>,
      <<"g","o~","n","d","e","r","i","l","e","c","e","k">>,
      <<"g","o~","n","d","e","r","i","l","e","c","e","k">>>>

W_hedef == <<"h","e","d","e","f">>

W_yapmak == <<"y","a","p","m","a","k">>

W_gitmek == <<"g","i","t","m","e","k">>

W_yapilacak == <<" ","y","a","p","i~","l","a","c","a","k">>

W_gidilecek == <<" ","g","i","d","i","l","e","c","e","k">>

W_gorev_dot == <<"G","o~","r","e","v",".">>

W_bu_hafta == <<"b","u"," ","h","a","f","t","a">>

W_this_week == <<"t","h","i","s"," ","w","e","e","k">>

W_bu_ay == <<"b","u"," ","a","y">>

W_this_month == <<"t","h","i","s"," ","m","o","n","t","h">>

(***************************************************************************)
(* Intent tests (telegram_bot.py, task_parser.py)                          *)
(***************************************************************************)

_is_summary_request(text) == ContainsAny(Lower(text), SUMMARY_WORDS)

_is_delete_request(text) == ContainsAny(Lower(text), DELETE_WORDS)

_is_complete_request(text) == ContainsAny(Lower(text), COMPLETE_WORDS)

\* "sablon" in lowered or "template" in lowered or "ornek" in lowered
IsTemplateRequest(text) == ContainsAny(Lower(text), TEMPLATE_WORDS)

looks_like_task(text) == ContainsAny(Lower(text), TASK_KEYWORDS)

(***************************************************************************)
(* The task-id pattern r"#?(\\d+)": in a raw string the two backslashes    *)
(* are an escaped backslash, so the group is a literal backslash followed  *)
(* by one or more letters d.                                               *)
(***************************************************************************)

\* where group 1 starts when the pattern matches at position i, else 0
IdGroupStartAt(t, i) ==
    IF i <= Len(t) /\ t[i] = "#" /\ MatchAt(t, i + 1, <<BSL, "d">>) THEN i + 1
    ELSE IF MatchAt(t, i, <<BSL, "d">>) THEN i
    ELSE 0

RECURSIVE RunOfD(_, _)
\* the end of the greedy d+ that starts at position i
RunOfD(t, i) == IF i + 1 <= Len(t) /\ t[i + 1] = "d" THEN RunOfD(t, i + 1) ELSE i

\* group 1 of the match whose group starts at position g
IdGroupAt(t, g) == SubSeq(t, g, RunOfD(t, g + 1))

\* re.search(r"#?(\\d+)", text): group 1 of the leftmost match, or None
IdMatch(text) ==
    LET i == Least({k \in 1..Len(text) : IdGroupStartAt(text, k) > 0})
    IN IF i = 0 THEN NoText ELSE IdGroupAt(text, IdGroupStartAt(text, i))

\* int(s) raises ValueError unless s is a run of decimal digits
IsIntLiteral(s) == s /= <<>> /\ \A k \in 1..Len(s) : s[k] \in Digits

DigitVal(c) ==
    CASE c = "0" -> 0 [] c = "1" -> 1 [] c = "2" -> 2 [] c = "3" -> 3
      [] c = "4" -> 4 [] c = "5" -> 5 [] c = "6" -> 6 [] c = "7" -> 7
      [] c = "8" -> 8 [] c = "9" -> 9

RECURSIVE IntOf(_)
\* int(s) for a run of decimal digits
IntOf(s) ==
    IF s = <<>> THEN 0 ELSE 10 * IntOf(SubSeq(s, 1, Len(s) - 1)) + DigitVal(s[Len(s)])

RECURSIVE SubIdFrom(_, _)
\* re.sub(r"#?\\d+", " ", t) from position i on
SubIdFrom(t, i) ==
    IF i > Len(t) THEN <<>>
    ELSE LET g == IdGroupStartAt(t, i)
         IN IF g > 0 THEN <<SP>> \o SubIdFrom(t, RunOfD(t, g + 1) + 1)
            ELSE <<t[i]>> \o SubIdFrom(t, i + 1)

RECURSIVE ReplaceAll(_, _, _)
\* for word in action_words: cleaned = cleaned.replace(word, " "), from word k on
ReplaceAll(t, words, k) ==
    IF k > Len(words) THEN t ELSE ReplaceAll(Replace(t, words[k], <<SP>>), words, k + 1)

_extract_action_query(text, action_words) ==
    LET c1 == ReplaceAll(Lower(text), action_words, 1)
        c2 == SubWords(c1, QUERY_STRIP, <<SP>>)
        c3 == SubIdFrom(c2, 1)
    IN Strip(CollapseSpaces(c3))

(***************************************************************************)
(* _tokenize: the class [^\\w...] of the raw string excludes the backslash,*)
(* the letter w and the twelve Turkish letters, so a token is a run of     *)
(* those characters.                                                       *)
(***************************************************************************)

TokenChars ==
    {BSL, "w", "c~", "g~", "i~", "o~", "s~", "u~", "C~", "G~", "I~", "O~", "S~", "U~"}

RECURSIVE TokenEnd(_, _)
\* the end of the run of token characters that starts at position i
TokenEnd(t, i) == IF i + 1 <= Len(t) /\ t[i + 1] \in TokenChars THEN TokenEnd(t, i + 1) ELSE i

_tokenize(text) ==
    LET t == Lower(text)
        starts == {i \in 1..Len(t) :
                      t[i] \in TokenChars /\ (i = 1 \/ t[i - 1] \notin TokenChars)}
    IN {SubSeq(t, i, TokenEnd(t, i)) : i \in {j \in starts : TokenEnd(t, j) - j + 1 > 2}}

(***************************************************************************)
(* Title normalizer (telegram_bot.py) and filler stripper (task_parser.py) *)
(***************************************************************************)

_strip_filler(text) == Strip(CollapseSpaces(SubWordsIgnoreCase(text, FILLER_WORDS, <<>>)))

RECURSIVE ApplyReplacements(_, _)
\* for src, dst in replacements.items(): lowered = lowered.replace(src, dst)
ApplyReplacements(t, k) ==
    IF k > Len(REPL_SRC) THEN t
    ELSE ApplyReplacements(Replace(t, REPL_SRC[k], REPL_DST[k]), k + 1)

\* str.capitalize(): the first character upper-cased, the rest lower-cased
Capitalize(t) == IF t = <<>> THEN <<>> ELSE <<UpperCh(Head(t))>> \o Lower(Tail(t))

\* t[: -len(w)]
DropSuffix(t, w) == SubSeq(t, 1, Len(t) - Len(w))

\* if lowered.endswith(w): lowered = lowered[: -len(w)].strip() + repl
ReplaceSuffix(t, w, repl) == IF EndsWith(t, w) THEN Strip(DropSuffix(t, w)) \o repl ELSE t

\* if cleaned and cleaned[-1] not in ".!?": cleaned += "."
EndSentence(cleaned) ==
    IF cleaned /= <<>> /\ cleaned[Len(cleaned)] \notin {".", "!", "?"}
    THEN cleaned \o <<".">>
    ELSE cleaned

\* the function below its first test, on the stripped title
NormalizeStripped(text) ==
    LET l1 == SubWords(Lower(text), TITLE_STRIP_1, <<SP>>)
        l2 == SubWords(l1, TITLE_STRIP_2, <<SP>>)
        l3 == Strip(CollapseSpaces(l2))
        l4 == ApplyReplacements(l3, 1)
        l5 == ReplaceSuffix(l4, W_yapmak, W_yapilacak)
        l6 == ReplaceSuffix(l5, W_gitmek, W_gidilecek)
    IN IF text = <<>> THEN W_gorev_dot ELSE EndSentence(Capitalize(Strip(l6)))

_normalize_task_title(title) == NormalizeStripped(Strip(title))

(***************************************************************************)
(* Instants (utils.py): minutes of local time from Monday 2024-01-01 00:00 *)
(***************************************************************************)

MinutesPerDay == 24 * 60

\* the configured zone, Europe/Istanbul, is three hours ahead of UTC
TzOffset == 3 * 60

\* ISO instants in UTC order as their minutes do
to_utc_iso(dt) == dt - TzOffset

from_iso_to_local(value) == value + TzOffset

DayOf(dt) == dt \div MinutesPerDay

TimeOfDay(dt) == dt % MinutesPerDay

\* datetime.weekday(): Monday is 0
Weekday(dt) == DayOf(dt) % 7

\* end_of_week counting the days to the Monday that follows
end_of_week_monday(base) ==
    LET days_ahead == 7 - Weekday(base)
    IN (DayOf(base) + days_ahead) * MinutesPerDay + 23 * 60 + 59

end_of_week(base) ==
    LET days_ahead == 6 - Weekday(base)
    IN (DayOf(base) + days_ahead) * MinutesPerDay + 23 * 60 + 59

IsLeap(y) == (y % 4 = 0 /\ y % 100 /= 0) \/ y % 400 = 0

DaysInMonth(y, m) ==
    IF m = 2 THEN (IF IsLeap(y) THEN 29 ELSE 28)
    ELSE IF m \in {4, 6, 9, 11} THEN 30
    ELSE 31

RECURSIVE CivilFrom(_, _, _)
\* the date that lies rem days after the first of month m of year y
CivilFrom(y, m, rem) ==
    IF rem < DaysInMonth(y, m) THEN [year |-> y, month |-> m, day |-> rem + 1]
    ELSE IF m = 12 THEN CivilFrom(y + 1, 1, rem - DaysInMonth(y, m))
    ELSE CivilFrom(y, m + 1, rem - DaysInMonth(y, m))

\* year, month and day of an instant
Civil(dt) == CivilFrom(2024, 1, DayOf(dt))

RECURSIVE DaysBeforeMonth(_, _)
\* days from 2024-01-01 to the first of month m of year y
DaysBeforeMonth(y, m) ==
    IF y = 2024 /\ m = 1 THEN 0
    ELSE IF m = 1 THEN DaysBeforeMonth(y - 1, 12) + DaysInMonth(y - 1, 12)
    ELSE DaysBeforeMonth(y, m - 1) + DaysInMonth(y, m - 1)

\* base.replace(year=y, month=m, day=1): the time of day is kept
FirstOfMonthAt(y, m, base) == DaysBeforeMonth(y, m) * MinutesPerDay + TimeOfDay(base)

end_of_month(base) ==
    LET c == Civil(base)
        next_month == IF c.month = 12 THEN FirstOfMonthAt(c.year + 1, 1, base)
                      ELSE FirstOfMonthAt(c.year, c.month + 1, base)
    IN next_month - 1

(***************************************************************************)
(* parse_task_text (task_parser.py).  dateparser's search_dates is a       *)
(* library outside the repository: it is taken to find the Turkish words   *)
(* for tomorrow and today as whole words, in any letter case, and to       *)
(* report the matched substring with tomorrow = now + 1 day, today = now.  *)
(***************************************************************************)

DATE_WORDS == <<<<"y","a","r","i~","n">>, <<"b","u","g","u~","n">>>>

\* the instant search_dates gives for alternative k of DATE_WORDS
DateOf(k, now) == IF k = 1 THEN now + MinutesPerDay ELSE now

RECURSIVE SearchDatesFrom(_, _, _)
\* the (phrase, instant) pairs found from position i on, in reading order
SearchDatesFrom(text, i, now) ==
    IF i > Len(text) THEN <<>>
    ELSE LET k == WordAltAt(text, i, DATE_WORDS, TRUE)
         IN IF k > 0
            THEN <<[phrase |-> SubSeq(text, i, i + Len(DATE_WORDS[k]) - 1),
                    dt |-> DateOf(k, now)]>>
                 \o SearchDatesFrom(text, i + Len(DATE_WORDS[k]), now)
            ELSE SearchDatesFrom(text, i + 1, now)

search_dates(text, now) == SearchDatesFrom(text, 1, now)

\* parse_task_text taking the first phrase found
ParseFoundFirst(text, now, found) ==
    IF found = <<>> THEN [title |-> _strip_filler(text), due_at |-> NoTime]
    ELSE [title |-> _strip_filler(Strip(Replace(text, found[1].phrase, <<SP>>))),
          due_at |-> found[1].dt]

\* parse_task_text giving now when it finds no date
ParseFoundDueNow(text, now, found) ==
    IF found = <<>> THEN [title |-> _strip_filler(text), due_at |-> now]
    ELSE [title |-> _strip_filler(Strip(Replace(text, found[Len(found)].phrase, <<SP>>))),
          due_at |-> found[Len(found)].dt]

\* parse_task_text once search_dates has returned found
ParseFound(text, now, found) ==
    LET last_found == found[Len(found)]
        cleaned == IF found /= <<>>
                   THEN Strip(Replace(text, last_found.phrase, <<SP>>))
                   ELSE text
        lowered == Lower(text)
        due_at == IF found /= <<>> THEN last_found.dt
                  ELSE IF Contains(lowered, W_bu_hafta) \/ Contains(lowered, W_this_week)
                       THEN end_of_week(now)
                  ELSE IF Contains(lowered, W_bu_ay) \/ Contains(lowered, W_this_month)
                       THEN end_of_month(now)
                  ELSE NoTime
        title == IF cleaned /= <<>> THEN _strip_filler(cleaned) ELSE Strip(text)
    IN [title |-> title, due_at |-> due_at]

parse_task_text(text, now) == ParseFound(text, now, search_dates(text, now))

(***************************************************************************)
(* parse_duration (task_parser.py): re.search of                           *)
(* r"(\d+)\s*(dakika|dk|saat|gun|gun)" on the lowered text, where the      *)
(* fourth alternative is written with u-umlaut.                            *)
(***************************************************************************)

\* the alternation of group 2, in its order
DURATION_UNITS ==
    <<<<"d","a","k","i","k","a">>, <<"d","k">>, <<"s","a","a","t">>,
      <<"g","u~","n">>, <<"g","u","n">>>>

\* `return None`
NoMinutes == 0 - 1

\* int() raising ValueError, which parse_duration does not catch
ValueError == 0 - 2

RECURSIVE RunEnd(_, _, _)
\* the position behind the longest run of characters of S that starts at i
RunEnd(t, i, S) == IF i <= Len(t) /\ t[i] \in S THEN RunEnd(t, i + 1, S) ELSE i

\* the day unit counted as 24 minutes
DurationOfShortDay(value, unit) ==
    IF value = ValueError THEN ValueError
    ELSE IF unit \in {DURATION_UNITS[1], DURATION_UNITS[2]} THEN value
    ELSE IF unit = DURATION_UNITS[3] THEN value * 60
    ELSE IF unit \in {DURATION_UNITS[4], DURATION_UNITS[5]} THEN value * 24
    ELSE NoMinutes

\* the minutes for the value and the unit matched (lines 81 to 89); value is
\* ValueError when int() has raised
DurationOf(value, unit) ==
    IF value = ValueError THEN ValueError
    ELSE IF unit \in {DURATION_UNITS[1], DURATION_UNITS[2]} THEN value
    ELSE IF unit = DURATION_UNITS[3] THEN value * 60
    ELSE IF unit \in {DURATION_UNITS[4], DURATION_UNITS[5]} THEN value * 60 * 24
    ELSE NoMinutes

\* parse_duration taking the rightmost match
parse_duration_rightmost(text) ==
    LET t == Lower(text)
        UnitStart(i) == RunEnd(t, RunEnd(t, i, Digits), {SP})
        UnitAt(i) == Least({k \in 1..Len(DURATION_UNITS) :
                               MatchAt(t, UnitStart(i), DURATION_UNITS[k])})
        starts == {i \in 1..Len(t) : t[i] \in Digits /\ UnitAt(i) > 0}
        start == IF starts = {} THEN 0 ELSE CHOOSE i \in starts : \A j \in starts : j <= i
        group1 == SubSeq(t, start, RunEnd(t, start, Digits) - 1)
    IN IF start = 0 THEN NoMinutes
       ELSE DurationOf(IntOf(group1), DURATION_UNITS[UnitAt(start)])

\* \d+ and \s* take all they can, and giving characters back never helps,
\* since no unit starts with a digit or a space; re.search returns the
\* leftmost match
parse_duration(text) ==
    LET t == Lower(text)
        \* where group 2 starts if group 1 starts at position i
        UnitStart(i) == RunEnd(t, RunEnd(t, i, Digits), {SP})
        \* the alternative of group 2 that matches then, or 0
        UnitAt(i) == Least({k \in 1..Len(DURATION_UNITS) :
                               MatchAt(t, UnitStart(i), DURATION_UNITS[k])})
        start == Least({i \in 1..Len(t) : t[i] \in Digits /\ UnitAt(i) > 0})
        group1 == SubSeq(t, start, RunEnd(t, start, Digits) - 1)
    IN IF start = 0 THEN NoMinutes
       ELSE DurationOf(IF IsIntLiteral(group1) THEN IntOf(group1) ELSE ValueError,
                       DURATION_UNITS[UnitAt(start)])

(***************************************************************************)
(* Bounds and inputs of the model                                          *)
(***************************************************************************)

\* model bounds: rows ever inserted into tasks and into pending_tasks
MaxTasks == 2

MaxPending == 2

\* the chats that write to the bot; the one that writes first is called A
Chats == {"A", "B"}

FirstChat == "A"

\* the messages sent to the bot

T_ozet_toplanti == <<"o","z","e","t"," ","t","o","p","l","a","n","t","i">>

T_ozet_sil == <<"o","z","e","t"," ","s","i","l">>

T_template_sil == <<"t","e","m","p","l","a","t","e"," ","s","i","l">>

T_sil == <<"s","i","l">>

T_sil_id == <<"s","i","l"," ","#","1">>

T_sil_bsd == <<"s","i","l"," ","\\","d">>

T_toplanti_sil == <<"t","o","p","l","a","n","t","i"," ","s","i","l">>

T_sil_bitti == <<"s","i","l"," ","b","i","t","t","i">>

T_bitti_2 == <<"b","i","t","t","i"," ","2">>

T_toplanti_bitti == <<"t","o","p","l","a","n","t","i"," ","b","i","t","t","i">>

T_toplanti == <<"t","o","p","l","a","n","t","i">>

T_yarin_toplanti == <<"Y","a","r","i~","n"," ","t","o","p","l","a","n","t","i">>

T_sunum == <<"s","u","n","u","m"," ","h","a","t","i","r","l","a","t">>

T_yarin_ozet == <<"y","a","r","i~","n"," ","o","z","e","t">>

T_merhaba == <<"m","e","r","h","a","b","a">>

Texts ==
    {T_ozet_toplanti, T_ozet_sil, T_template_sil,
     T_sil, T_sil_id, T_sil_bsd, T_toplanti_sil,
     T_sil_bitti, T_bitti_2, T_toplanti_bitti,
     T_toplanti, T_yarin_toplanti, T_sunum,
     T_yarin_ozet, T_merhaba}

\* Wednesday 2024-01-03 10:00
StartTime == 2 * MinutesPerDay + 10 * 60

\* the instants at which updates arrive: that morning and the next
ClockValues == {StartTime, StartTime + MinutesPerDay}

(***************************************************************************)
(* The text functions applied to the messages, evaluated once.  Each       *)
(* ...Of operator is the function itself, looked up where it is tabulated. *)
(***************************************************************************)

StripTable == [raw \in Texts |-> Strip(raw)]

StripOf(raw) == IF raw \in DOMAIN StripTable THEN StripTable[raw] ELSE Strip(raw)

\* the texts handle_message works on
MsgTexts == {StripTable[raw] : raw \in Texts}

ParseTable == [t \in MsgTexts |-> [n \in ClockValues |-> parse_task_text(t, n)]]

ParseOf(text, clock) ==
    IF text \in DOMAIN ParseTable /\ clock \in ClockValues THEN ParseTable[text][clock]
    ELSE parse_task_text(text, clock)

ParsedTitles == {ParseTable[t][StartTime].title : t \in MsgTexts}

NormalizeTable == [title \in ParsedTitles |-> _normalize_task_title(title)]

NormalizeOf(title) ==
    IF title \in DOMAIN NormalizeTable THEN NormalizeTable[title]
    ELSE _normalize_task_title(title)

IdMatchTable == [t \in MsgTexts |-> IdMatch(t)]

IdMatchOf(text) == IF text \in DOMAIN IdMatchTable THEN IdMatchTable[text] ELSE IdMatch(text)

QueryTable ==
    [t \in MsgTexts |-> [delete |-> _extract_action_query(t, DELETE_WORDS),
                         complete |-> _extract_action_query(t, COMPLETE_ACTION_WORDS)]]

\* _extract_action_query with the action words of the branch
QueryOf(text, branch) ==
    IF text \in DOMAIN QueryTable THEN QueryTable[text][branch]
    ELSE IF branch = "delete" THEN _extract_action_query(text, DELETE_WORDS)
    ELSE _extract_action_query(text, COMPLETE_ACTION_WORDS)

\* the titles a task may carry and the queries asked of them
Titles == ParsedTitles \cup {NormalizeTable[title] : title \in ParsedTitles}

Queries == {QueryTable[t].delete : t \in MsgTexts} \cup {QueryTable[t].complete : t \in MsgTexts}

\* the score _find_task_candidates gives a title for a non-empty query
ScoreText(query, task_title) ==
    LET title == Lower(task_title)
    IN (IF Contains(title, query) THEN 3 ELSE 0)
       + Cardinality(_tokenize(query) \cap _tokenize(title))

ScoreTable == [q \in Queries |-> [title \in Titles |-> ScoreText(q, title)]]

Score(query, task) ==
    IF query \in DOMAIN ScoreTable /\ task.title \in Titles THEN ScoreTable[query][task.title]
    ELSE ScoreText(query, task.title)

(***************************************************************************)
(* Tables (db.py) and their queries (task_service.py).  A table is the set *)
(* of its rows; an AUTOINCREMENT key never reuses an id.                   *)
(***************************************************************************)

\* INSERT INTO tasks(title, due_at, created_at, source, notes)
TaskRow(id, title, due_at, now) ==
    [id |-> id,
     title |-> title,
     due_at |-> IF due_at /= NoTime THEN to_utc_iso(due_at) ELSE NoTime,
     created_at |-> to_utc_iso(now),
     status |-> "pending",
     reminded_at |-> NoTime]

\* INSERT INTO pending_tasks(chat_id, title, created_at)
PendingRow(id, chat_id, title, created_at_iso) ==
    [id |-> id, chat_id |-> chat_id, title |-> title, created_at |-> created_at_iso]

\* get_pending_task with a WHERE clause that matches no row (the chat id bound
\* as a number against the TEXT column)
get_pending_task_no_match(rows, chat_id) == {NoRow}

\* SELECT * FROM pending_tasks WHERE chat_id = ? ORDER BY created_at DESC LIMIT 1:
\* the rows the query may return (rows created in the same instant tie), or None
get_pending_task(rows, chat_id) ==
    LET mine == {p \in rows : p.chat_id = chat_id}
    IN IF mine = {} THEN {NoRow}
       ELSE {p \in mine : \A q \in mine : q.created_at <= p.created_at}

\* DELETE FROM pending_tasks WHERE id = ?
clear_pending_task(rows, pending_id) == {p \in rows : p.id /= pending_id}

\* SELECT * FROM tasks WHERE id = ?
get_task(rows, task_id) ==
    IF \E t \in rows : t.id = task_id THEN CHOOSE t \in rows : t.id = task_id ELSE NoRow

\* UPDATE tasks SET status = 'done' WHERE id = ?
mark_done(rows, task_id) ==
    {IF t.id = task_id THEN [t EXCEPT !.status = "done"] ELSE t : t \in rows}

\* DELETE FROM tasks WHERE id = ?
delete_task(rows, task_id) == {t \in rows : t.id /= task_id}

\* the row of "SELECT id FROM tasks WHERE id = ?": mark_done, delete_task and
\* snooze_task return False without it
RowFound(rows, task_id) == \E t \in rows : t.id = task_id

\* snooze_task that also reopens the task
snooze_task_reopens(rows, task_id, new_due_at) ==
    {IF t.id = task_id
     THEN [t EXCEPT !.due_at = to_utc_iso(new_due_at), !.reminded_at = NoTime,
                    !.status = "pending"]
     ELSE t : t \in rows}

\* UPDATE tasks SET due_at = ?, reminded_at = NULL WHERE id = ?
snooze_task(rows, task_id, new_due_at) ==
    {IF t.id = task_id
     THEN [t EXCEPT !.due_at = to_utc_iso(new_due_at), !.reminded_at = NoTime]
     ELSE t : t \in rows}

\* WHERE status = 'pending' AND due_at IS NOT NULL AND reminded_at IS NULL
\* AND due_at <= ?
DueRows(rows, now_iso) ==
    {t \in rows : /\ t.status = "pending"
                  /\ t.due_at /= NoTime
                  /\ t.reminded_at = NoTime
                  /\ t.due_at <= now_iso}

\* due_tasks_for_reminder(now_iso): the ids of the rows read, in every order
\* that ORDER BY due_at ASC allows
due_tasks_for_reminder(rows, now_iso) ==
    LET sel == DueRows(rows, now_iso)
        n == Cardinality(sel)
    IN {[i \in 1..n |-> s[i].id] :
           s \in {r \in [1..n -> sel] :
                     /\ \A i, j \in 1..n : i /= j => r[i] /= r[j]
                     /\ \A i, j \in 1..n : i < j => r[i].due_at <= r[j].due_at}}

\* UPDATE tasks SET reminded_at = ? WHERE id = ?
set_reminded(rows, task_id, reminded_at_iso) ==
    {IF t.id = task_id THEN [t EXCEPT !.reminded_at = reminded_at_iso] ELSE t : t \in rows}

\* ORDER BY due_at IS NULL, due_at ASC, created_at DESC
ListOrderOk(a, b) ==
    \/ a.due_at /= NoTime /\ b.due_at = NoTime
    \/ a.due_at = NoTime /\ b.due_at = NoTime /\ a.created_at >= b.created_at
    \/ a.due_at /= NoTime /\ b.due_at /= NoTime
       /\ (a.due_at < b.due_at \/ (a.due_at = b.due_at /\ a.created_at >= b.created_at))

\* s[:limit]
Prefix(s, limit) == SubSeq(s, 1, IF Len(s) < limit THEN Len(s) ELSE limit)

\* list_tasks(status, limit): every order the ORDER BY allows (it leaves rows
\* that are equal on all three keys in any order), cut to LIMIT
list_tasks(rows, status, limit) ==
    LET sel == {t \in rows : t.status = status}
        n == Cardinality(sel)
        orders == {s \in [1..n -> sel] :
                      /\ \A i, j \in 1..n : i /= j => s[i] /= s[j]
                      /\ \A i, j \in 1..n : i < j => ListOrderOk(s[i], s[j])}
    IN {Prefix(s, limit) : s \in orders}

(***************************************************************************)
(* Candidate resolver (telegram_bot.py)                                    *)
(***************************************************************************)

\* the sort key without its second part, the score alone
KeyGreaterByScore(a, b) == a.score < b.score

\* the sort key (-score, due_at is None) of item a is greater than that of b
KeyGreater(a, b) ==
    \/ a.score < b.score
    \/ a.score = b.score /\ a.task.due_at = NoTime /\ b.task.due_at /= NoTime

RECURSIVE InsertStable(_, _)
\* x put behind every item whose key is not greater than its own
InsertStable(sorted, x) ==
    IF sorted = <<>> THEN <<x>>
    ELSE IF KeyGreater(Head(sorted), x) THEN <<x>> \o sorted
    ELSE <<Head(sorted)>> \o InsertStable(Tail(sorted), x)

RECURSIVE SortStable(_, _)
\* list.sort(key=...) of items[1..k], which is stable
SortStable(items, k) ==
    IF k = 0 THEN <<>> ELSE InsertStable(SortStable(items, k - 1), items[k])

\* the scoring loop keeping the tasks of score 0 as well
ScoredItemAlways(score, task) == <<[score |-> score, task |-> task]>>

\* if score > 0: scored.append((score, task))
ScoredItem(score, task) == IF score > 0 THEN <<[score |-> score, task |-> task]>> ELSE <<>>

RECURSIVE ScoredFrom(_, _, _)
\* the (score, task) pairs with score > 0 of task_list[k..], in list order
ScoredFrom(query, task_list, k) ==
    IF k > Len(task_list) THEN <<>>
    ELSE ScoredItem(Score(query, task_list[k]), task_list[k])
         \o ScoredFrom(query, task_list, k + 1)

\* scored.sort(key=...)
Sorted(items) == SortStable(items, Len(items))

\* [task for _, task in scored]
TasksOf(scored) == [i \in 1..Len(scored) |-> scored[i].task]

\* the resolver without its test `if not query:`
_find_task_candidates_scoring_always(query, task_list, limit) ==
    IF task_list = <<>> THEN <<>>
    ELSE TasksOf(Prefix(Sorted(ScoredFrom(query, task_list, 1)), limit))

\* task_list is `tasks`, list_tasks(limit=50)
_find_task_candidates(query, task_list, limit) ==
    IF task_list = <<>> THEN <<>>
    ELSE IF query = <<>> THEN Prefix(task_list, limit)
    ELSE TasksOf(Prefix(Sorted(ScoredFrom(query, task_list, 1)), limit))

(***************************************************************************)
(* handle_message (telegram_bot.py).  What one call does is an outcome:    *)
(* the branch it took, the reply it sent (or "raise" for an uncaught       *)
(* exception, which sends none), and the table writes it made, in order.   *)
(***************************************************************************)

Out(branch, reply, id, cands, title, due_at, writes) ==
    [branch |-> branch, reply |-> reply, id |-> id, cands |-> cands,
     title |-> title, due_at |-> due_at, writes |-> writes]

WCreateTask(title, due_at) == [op |-> "create_task", title |-> title, due_at |-> due_at]

WAddPending(chat_id, title, created_at_iso) ==
    [op |-> "add_pending_task", chat_id |-> chat_id, title |-> title,
     created_at |-> created_at_iso]

WClearPending(pending_id) == [op |-> "clear_pending_task", id |-> pending_id]

WCreateGoal(title, year) == [op |-> "create_goal", title |-> title, year |-> year]

\* _get_chat_id's return value, stored or chat_id
_get_chat_id(stored, chat) == IF stored /= None THEN stored ELSE chat

\* the pending branch storing the title parsed from the answer
PendingAnswerParsedTitle(pending, text, now) ==
    LET parsed == ParseOf(text, now)
    IN IF parsed.due_at = NoTime
       THEN Out("pending", "ask_again", NoId, <<>>, NoText, NoTime, <<>>)
       ELSE Out("pending", "saved", NoId, <<>>, parsed.title, parsed.due_at,
                <<WCreateTask(parsed.title, parsed.due_at), WClearPending(pending.id)>>)

\* the pending branch giving the draft up when the answer holds no date
PendingAnswerDropsDraft(pending, text, now) ==
    LET title == pending.title
        parsed == ParseOf(text, now)
    IN IF parsed.due_at = NoTime
       THEN Out("pending", "ask_again", NoId, <<>>, NoText, NoTime,
                <<WClearPending(pending.id)>>)
       ELSE Out("pending", "saved", NoId, <<>>, title, parsed.due_at,
                <<WCreateTask(title, parsed.due_at), WClearPending(pending.id)>>)

\* the pending branch replacing the draft by that of a new task-like message
PendingAnswerRearms(pending, text, now) ==
    LET title == pending.title
        parsed == ParseOf(text, now)
        normalized_title == NormalizeOf(parsed.title)
    IN IF parsed.due_at = NoTime
       THEN IF looks_like_task(text)
            THEN Out("pending", "ask_when", NoId, <<>>, normalized_title, NoTime,
                     <<WClearPending(pending.id),
                       WAddPending(pending.chat_id, normalized_title, to_utc_iso(now))>>)
            ELSE Out("pending", "ask_again", NoId, <<>>, NoText, NoTime, <<>>)
       ELSE Out("pending", "saved", NoId, <<>>, title, parsed.due_at,
                <<WCreateTask(title, parsed.due_at), WClearPending(pending.id)>>)

\* the pending branch arming the draft again after it has saved the task
PendingAnswerKeepsDraft(pending, text, now) ==
    LET title == pending.title
        parsed == ParseOf(text, now)
    IN IF parsed.due_at = NoTime
       THEN Out("pending", "ask_again", NoId, <<>>, NoText, NoTime, <<>>)
       ELSE Out("pending", "saved", NoId, <<>>, title, parsed.due_at,
                <<WCreateTask(title, parsed.due_at), WClearPending(pending.id),
                  WAddPending(pending.chat_id, title, to_utc_iso(now))>>)

\* the pending branch clearing the draft before it creates the task
PendingAnswerClearsFirst(pending, text, now) ==
    LET title == pending.title
        parsed == ParseOf(text, now)
    IN IF parsed.due_at = NoTime
       THEN Out("pending", "ask_again", NoId, <<>>, NoText, NoTime, <<>>)
       ELSE Out("pending", "saved", NoId, <<>>, title, parsed.due_at,
                <<WClearPending(pending.id), WCreateTask(title, parsed.due_at)>>)

\* the branch `if pending:`
PendingAnswer(pending, text, now) ==
    LET title == pending.title
        parsed == ParseOf(text, now)
    IN IF parsed.due_at = NoTime
       THEN Out("pending", "ask_again", NoId, <<>>, NoText, NoTime, <<>>)
       ELSE Out("pending", "saved", NoId, <<>>, title, parsed.due_at,
                <<WCreateTask(title, parsed.due_at), WClearPending(pending.id)>>)

\* _send_delete_confirmation / _send_done_confirmation
SendConfirmation(branch, task_id, rows) ==
    IF get_task(rows, task_id) = NoRow
    THEN Out(branch, "not_found", task_id, <<>>, NoText, NoTime, <<>>)
    ELSE Out(branch, "confirm", task_id, <<>>, get_task(rows, task_id).title, NoTime, <<>>)

\* _send_task_selection: one button per task, in list order
_send_task_selection(branch, cands) ==
    IF cands = <<>>
    THEN Out(branch, "no_match", NoId, <<>>, NoText, NoTime, <<>>)
    ELSE Out(branch, "pick", NoId, [i \in 1..Len(cands) |-> cands[i].id], NoText, NoTime, <<>>)

\* the limit _find_task_candidates defaults to
CandidateLimit == 5

\* if len(candidates) == 1: the confirmation; else: the selection
SendCandidates(branch, candidates, rows) ==
    IF Len(candidates) = 1 THEN SendConfirmation(branch, candidates[1].id, rows)
    ELSE _send_task_selection(branch, candidates)

\* the rest of the branch once list_tasks has returned open_tasks
ResolveRequest(branch, text, rows, open_tasks) ==
    SendCandidates(branch,
                   _find_task_candidates(QueryOf(text, branch), open_tasks, CandidateLimit),
                   rows)

\* the branches `if _is_delete_request(text):` and `if _is_complete_request(text):`,
\* one outcome for each order list_tasks may return
ActionRequest(branch, text, rows) ==
    LET match == IdMatchOf(text)
    IN IF match /= NoText
       THEN IF IsIntLiteral(match) THEN {SendConfirmation(branch, IntOf(match), rows)}
            ELSE {Out(branch, "raise", NoId, <<>>, NoText, NoTime, <<>>)}
       ELSE {ResolveRequest(branch, text, rows, open_tasks) :
                open_tasks \in list_tasks(rows, "pending", 50)}

\* the task branch arming a draft also when it has created the task
SaveOrAskArmsAlways(chat_id, now, normalized_title, due_at) ==
    IF due_at = NoTime
    THEN Out("task", "ask_when", NoId, <<>>, normalized_title, NoTime,
             <<WAddPending(chat_id, normalized_title, to_utc_iso(now))>>)
    ELSE Out("task", "saved", NoId, <<>>, normalized_title, due_at,
             <<WCreateTask(normalized_title, due_at),
               WAddPending(chat_id, normalized_title, to_utc_iso(now))>>)

\* if not parsed.due_at: the draft is stored and the date asked for; else the
\* task is created
SaveOrAsk(chat_id, now, normalized_title, due_at) ==
    IF due_at = NoTime
    THEN Out("task", "ask_when", NoId, <<>>, normalized_title, NoTime,
             <<WAddPending(chat_id, normalized_title, to_utc_iso(now))>>)
    ELSE Out("task", "saved", NoId, <<>>, normalized_title, due_at,
             <<WCreateTask(normalized_title, due_at)>>)

\* the branch `if looks_like_task(text):`
TaskRequest(text, chat_id, now) ==
    LET parsed == ParseOf(text, now)
    IN SaveOrAsk(chat_id, now, NormalizeOf(parsed.title), parsed.due_at)

\* the year pattern r"(20\\d{2})" of the goal branch: "20", a backslash, "dd"
GoalYearGroup == <<"2", "0", BSL, "d", "d">>

\* everything below the task branch
PlainReply(text) ==
    LET lowered == Lower(text)
        goal_title == Strip(Replace(text, GoalYearGroup, <<>>))
        rest == IF ContainsAny(lowered, GREETING_WORDS) THEN "greeting"
                ELSE IF ContainsAny(lowered, THANKS_WORDS) THEN "thanks"
                ELSE IF ContainsAny(lowered, WHOAMI_WORDS) THEN "whoami"
                ELSE "fallback"
    IN IF ContainsAny(lowered, LIST_WORDS)
       THEN Out("plain", "task_list", NoId, <<>>, NoText, NoTime, <<>>)
       ELSE IF Contains(lowered, W_hedef) /\ Contains(text, GoalYearGroup)
       THEN IF ~IsIntLiteral(GoalYearGroup)
            THEN Out("plain", "raise", NoId, <<>>, NoText, NoTime, <<>>)
            ELSE IF goal_title /= <<>>
                 THEN Out("plain", "goal_added", NoId, <<>>, goal_title, NoTime,
                          <<WCreateGoal(goal_title, IntOf(GoalYearGroup))>>)
            ELSE Out("plain", rest, NoId, <<>>, NoText, NoTime, <<>>)
       ELSE Out("plain", rest, NoId, <<>>, NoText, NoTime, <<>>)

\* the tests with the complete request tried before the delete request
CascadeCompleteFirst(text) ==
    IF _is_summary_request(text) THEN "summary"
    ELSE IF IsTemplateRequest(text) THEN "template"
    ELSE IF _is_complete_request(text) THEN "complete"
    ELSE IF _is_delete_request(text) THEN "delete"
    ELSE IF looks_like_task(text) THEN "task"
    ELSE "plain"

\* the tests with looks_like_task tried first
CascadeTaskFirst(text) ==
    IF looks_like_task(text) THEN "task"
    ELSE IF _is_summary_request(text) THEN "summary"
    ELSE IF IsTemplateRequest(text) THEN "template"
    ELSE IF _is_delete_request(text) THEN "delete"
    ELSE IF _is_complete_request(text) THEN "complete"
    ELSE "plain"

\* the order of handle_message's tests below `if pending:`
Cascade(text) ==
    IF _is_summary_request(text) THEN "summary"
    ELSE IF IsTemplateRequest(text) THEN "template"
    ELSE IF _is_delete_request(text) THEN "delete"
    ELSE IF _is_complete_request(text) THEN "complete"
    ELSE IF looks_like_task(text) THEN "task"
    ELSE "plain"

CascadeTable == [t \in MsgTexts |-> Cascade(t)]

CascadeOf(text) == IF text \in DOMAIN CascadeTable THEN CascadeTable[text] ELSE Cascade(text)

PlainTable == [t \in MsgTexts |-> PlainReply(t)]

PlainOf(text) == IF text \in DOMAIN PlainTable THEN PlainTable[text] ELSE PlainReply(text)

\* the branch taken with the test `if pending:` left out
BranchByCategory(text, pending) == CascadeOf(text)

\* the branch one call of handle_message takes
Branch(text, pending) == IF pending /= NoRow THEN "pending" ELSE CascadeOf(text)

\* the outcomes of one call of handle_message, given the row get_pending_task
\* returned
handle_message(text, chat_id, clock, pending, rows) ==
    LET branch == Branch(text, pending)
    IN CASE branch = "pending" -> {PendingAnswer(pending, text, clock)}
         [] branch = "summary" -> {Out("summary", "summary", NoId, <<>>, NoText, NoTime, <<>>)}
         [] branch = "template" ->
                {Out("template", "templates", NoId, <<>>, NoText, NoTime, <<>>)}
         [] branch = "delete" -> ActionRequest("delete", text, rows)
         [] branch = "complete" -> ActionRequest("complete", text, rows)
         [] branch = "task" -> {TaskRequest(text, chat_id, clock)}
         [] OTHER -> {PlainOf(text)}

(***************************************************************************)
(* The bot as a state machine                                              *)
(***************************************************************************)

VARIABLES
    now_local,          \* the clock, now_local()
    telegram_chat_id,   \* settings row "telegram_chat_id", or None
    tasks,              \* table tasks
    task_seq,           \* the last id given out by tasks
    pending_tasks,      \* table pending_tasks
    pending_seq,        \* the last id given out by pending_tasks
    last,               \* the last update handled: its input and its outcome
    reminder,           \* reminder_job: its position and its locals
    owed,               \* the ids of the tasks whose due time has had no reminder yet
    raced,              \* the ids snoozed while the running job held them unmarked
    max_papers_per_day, \* CONFIG.max_papers_per_day
    papers,             \* table papers
    paper_seq,          \* the last id given out by papers
    scan,               \* scan_papers: its position and its locals
    counted             \* per (source, source_id): the times a run counted it as new

\* the reminder job, and the paper scanner with its table
job_vars == <<reminder, owed, raced>>

scan_vars == <<max_papers_per_day, papers, paper_seq, scan, counted>>

vars == <<now_local, telegram_chat_id, tasks, task_seq, pending_tasks, pending_seq, last,
          job_vars, scan_vars>>

\* reminder_job is not running
NoJob == [pc |-> "idle", now_iso |-> NoTime, due_tasks |-> <<>>, i |-> 0]

\* scan_papers has not run: no papers to store, its counters unset
NoScan ==
    [pc |-> "idle", queue |-> <<>>, new_papers |-> 0, analyzed |-> 0,
     analysis_budget |-> 0, failed |-> 0]

\* the two services scan_papers asks, in the order it stores their papers
PaperSources == <<"arxiv", "semantic_scholar">>

\* the ids the services give their papers; an entry may come without one
PaperIds == {"p1", "p2", None}

PaperKeys == {<<PaperSources[k], source_id>> : k \in 1..2, source_id \in PaperIds}

\* no paper has been counted as new
NoCount == [key \in PaperKeys |-> 0]

\* the default of MAX_PAPERS_PER_DAY (config.py)
DefaultMaxPapers == 30

\* neither the reminder job nor the scanner has run
JobsIdle ==
    /\ reminder = NoJob
    /\ owed = {}
    /\ raced = {}
    /\ max_papers_per_day = DefaultMaxPapers
    /\ papers = {}
    /\ paper_seq = 0
    /\ scan = NoScan
    /\ counted = NoCount

NoEvent ==
    [op |-> "none", chat |-> None, text |-> <<>>, chat_id |-> None, now |-> NoTime,
     pending |-> NoRow,
     out |-> Out("none", "none", NoId, <<>>, NoText, NoTime, <<>>)]

Init ==
    /\ now_local = StartTime
    /\ telegram_chat_id = None
    /\ tasks = {}
    /\ task_seq = 0
    /\ pending_tasks = {}
    /\ pending_seq = 0
    /\ last = NoEvent
    /\ JobsIdle

\* the writes with create_task replacing the rows of tasks by the new row
ExecCreateReplaces(db, w, clock) ==
    CASE w.op = "create_task" ->
            [db EXCEPT !.tasks = {TaskRow(db.task_seq + 1, w.title, w.due_at, clock)},
                       !.task_seq = @ + 1]
      [] w.op = "add_pending_task" ->
            [db EXCEPT !.pending_tasks =
                           @ \cup {PendingRow(db.pending_seq + 1, w.chat_id, w.title,
                                              w.created_at)},
                       !.pending_seq = @ + 1]
      [] w.op = "clear_pending_task" ->
            [db EXCEPT !.pending_tasks = clear_pending_task(@, w.id)]
      [] OTHER -> db

\* the tables after one write
Exec(db, w, clock) ==
    CASE w.op = "create_task" ->
            [db EXCEPT !.tasks = @ \cup {TaskRow(db.task_seq + 1, w.title, w.due_at, clock)},
                       !.task_seq = @ + 1]
      [] w.op = "add_pending_task" ->
            [db EXCEPT !.pending_tasks =
                           @ \cup {PendingRow(db.pending_seq + 1, w.chat_id, w.title,
                                              w.created_at)},
                       !.pending_seq = @ + 1]
      [] w.op = "clear_pending_task" ->
            [db EXCEPT !.pending_tasks = clear_pending_task(@, w.id)]
      [] OTHER -> db

RECURSIVE ExecAll(_, _, _, _)
\* the tables after writes[k..]
ExecAll(db, writes, k, clock) ==
    IF k > Len(writes) THEN db ELSE ExecAll(Exec(db, writes[k], clock), writes, k + 1, clock)

\* number of writes of one kind
CountOp(writes, op) == Cardinality({k \in 1..Len(writes) : writes[k].op = op})

\* the model stops inserting at its bounds
WithinBounds(writes) ==
    /\ task_seq + CountOp(writes, "create_task") <= MaxTasks
    /\ pending_seq + CountOp(writes, "add_pending_task") <= MaxPending

Database ==
    [tasks |-> tasks, task_seq |-> task_seq,
     pending_tasks |-> pending_tasks, pending_seq |-> pending_seq]

\* a text message from chat arrives and handle_message runs to its end
HandleMessage(chat, raw) ==
    LET text == StripOf(raw)
        chat_id == _get_chat_id(telegram_chat_id, chat)
    IN \E pending \in get_pending_task(pending_tasks, chat_id) :
       \E out \in handle_message(text, chat_id, now_local, pending, tasks) :
          LET db == ExecAll(Database, out.writes, 1, now_local)
          IN /\ telegram_chat_id = None => chat = FirstChat
             /\ WithinBounds(out.writes)
             /\ telegram_chat_id' = IF telegram_chat_id = None THEN chat ELSE telegram_chat_id
             /\ tasks' = db.tasks
             /\ task_seq' = db.task_seq
             /\ pending_tasks' = db.pending_tasks
             /\ pending_seq' = db.pending_seq
             /\ last' = [op |-> "message", chat |-> chat, text |-> text,
                         chat_id |-> chat_id, now |-> now_local, pending |-> pending,
                         out |-> out]
             /\ UNCHANGED <<now_local, job_vars, scan_vars>>

\* the ids the commands and the buttons name: those of the tasks created so far
KnownIds == 1..task_seq

\* the update leaves pending_tasks, the setting and the clock alone
TasksOnly(rows, event) ==
    /\ tasks' = rows
    /\ last' = event
    /\ UNCHANGED <<now_local, telegram_chat_id, task_seq, pending_tasks, pending_seq,
                   job_vars, scan_vars>>

Event(op, out) ==
    [op |-> op, chat |-> None, text |-> <<>>, chat_id |-> None, now |-> NoTime,
     pending |-> NoRow, out |-> out]

\* /done <id>
done_command(task_id) ==
    LET found == get_task(tasks, task_id) /= NoRow
        out == Out("command", IF found THEN "done" ELSE "not_found", task_id, <<>>,
                   NoText, NoTime, <<>>)
    IN TasksOnly(mark_done(tasks, task_id), Event("done_command", out))

\* the button data handle_callback acts on
CallbackData ==
    {[kind |-> "cancel", id |-> NoId]}
    \cup {[kind |-> k, id |-> i] : k \in {"delete", "done"},
                                    i \in KnownIds}

\* a button is pressed and handle_callback runs to its end
handle_callback(data) ==
    LET found == get_task(tasks, data.id) /= NoRow
        acted(reply) == Out("callback", IF found THEN reply ELSE "not_found", data.id, <<>>,
                            NoText, NoTime, <<>>)
    IN CASE data.kind = "cancel" ->
               TasksOnly(tasks, Event("callback",
                                      Out("callback", "cancelled", NoId, <<>>, NoText, NoTime, <<>>)))
         [] data.kind = "delete_pick" ->
               TasksOnly(tasks, Event("callback", SendConfirmation("delete", data.id, tasks)))
         [] data.kind = "done_pick" ->
               TasksOnly(tasks, Event("callback", SendConfirmation("complete", data.id, tasks)))
         [] data.kind = "delete" ->
               TasksOnly(delete_task(tasks, data.id), Event("callback", acted("deleted")))
         [] data.kind = "done" ->
               TasksOnly(mark_done(tasks, data.id), Event("callback", acted("done")))

\* time passes until the next instant at which updates arrive
Tick ==
    /\ \E t \in ClockValues : t > now_local /\ now_local' = t
    /\ UNCHANGED <<telegram_chat_id, tasks, task_seq, pending_tasks, pending_seq, last,
                   job_vars, scan_vars>>

Next ==
    \/ \E chat \in Chats, raw \in Texts : HandleMessage(chat, raw)
    \/ \E task_id \in KnownIds : done_command(task_id)
    \/ \E data \in CallbackData : handle_callback(data)
    \/ Tick

Spec == Init /\ [][Next]_vars

(***************************************************************************)
(* The functions of utils.py, task_parser.py and the candidate resolver,   *)
(* each called once on an input: `last` holds the input, then the result.  *)
(***************************************************************************)

\* model bound: the days from 2024-01-01 on which a call is made; they span
\* the leap February of 2024, the turn of the year and the February of 2025
MaxDay == 425

\* the times of day of the calls: 00:00, 10:00, 23:59
DayTimes == {0, 10 * 60, 23 * 60 + 59}

Instants == {d * MinutesPerDay + t : d \in 0..MaxDay, t \in DayTimes}

\* a call that has not run yet
Input(fn, now, text, task_list, limit) ==
    [op |-> "input", fn |-> fn, now |-> now, text |-> text, task_list |-> task_list,
     limit |-> limit, out |-> None]

InstantInputs ==
    {Input(fn, n, <<>>, <<>>, 0) : fn \in {"end_of_week", "end_of_month"}, n \in Instants}

\* the texts handed to parse_duration: a number, blanks and a unit, alone or
\* inside other words
DurationNumbers == {<<"2">>, <<"3","0">>, <<"1">>, <<"0","0","7">>}

DurationBlanks == {<<>>, <<SP>>, <<SP, SP>>}

DurationBefore == {<<>>, <<"x", SP>>, <<"E","R","T","E","L","E",":",SP>>}

DurationAfter == {<<>>, <<SP, "y">>}

DurationPairs ==
    [before : DurationBefore, number : DurationNumbers, blanks : DurationBlanks,
     unit : 1..Len(DURATION_UNITS), after : DurationAfter]

\* the text of a pair
PairText(p) == p.before \o p.number \o p.blanks \o DURATION_UNITS[p.unit] \o p.after

\* texts without a number followed by a unit
T_banana == <<"b","a","n","a","n","a">>

T_saat_2 == <<"s","a","a","t",SP,"2">>

T_10_hafta == <<"1","0",SP,"h","a","f","t","a">>

T_12 == <<"1","2">>

T_2_x_saat == <<"2",SP,"x",SP,"s","a","a","t">>

NoPairTexts == {T_banana, T_saat_2, T_10_hafta, T_12, T_2_x_saat, <<>>}

\* the pairs that are put two in a row
ShortPairs == {p \in DurationPairs : p.before = <<>> /\ p.blanks = <<SP>> /\ p.after = <<>>}

\* the text of two pairs
TwoPairsText(p, q) == PairText(p) \o <<SP>> \o PairText(q)

DurationTexts ==
    {PairText(p) : p \in DurationPairs} \cup NoPairTexts
    \cup {TwoPairsText(p, q) : p, q \in ShortPairs}

DurationInputs == {Input("parse_duration", NoTime, t, <<>>, 0) : t \in DurationTexts}

\* the titles of the tasks handed to the resolver and the queries asked
R_danisman ==
    <<"D","a","n","i~","s~","m","a","n",SP,"t","o","p","l","a","n","t","i~","s","i~">>

R_market == <<"M","a","r","k","e","t",SP,"a","l","i~","s~","v","e","r","i","s~","i">>

R_isigi_kapat == <<"i~","s~","i~","g~","i~",SP,"k","a","p","a","t">>

R_isigi_ac == <<"i~","s~","i~","g~","i~",SP,"a","c~">>

Q_danisman == <<"d","a","n","i~","s~","m","a","n">>

Q_toplantisi_danisman ==
    <<"t","o","p","l","a","n","t","i~","s","i~",SP,"d","a","n","i~","s~","m","a","n">>

ResolverQueries == {<<>>, Q_danisman, Q_toplantisi_danisman, R_isigi_kapat}

\* a task is one of four titles, with a due instant or without
TaskKinds == [title : {R_danisman, R_market, R_isigi_kapat, R_isigi_ac},
              due_at : {NoTime, StartTime}]

\* model bound: the length of the open-task list
MaxListLen == 3

\* the open-task lists: the task at position i has id i
TaskLists ==
    UNION {{[i \in 1..n |-> TaskRow(i, kinds[i].title, kinds[i].due_at, StartTime)] :
               kinds \in [1..n -> TaskKinds]} : n \in 0..MaxListLen}

\* the limits: one that cuts the lists and the default
ResolverLimits == {2, CandidateLimit}

ResolverInputs ==
    {Input("_find_task_candidates", NoTime, q, task_list, limit) :
        q \in ResolverQueries, task_list \in TaskLists, limit \in ResolverLimits}

\* the delete and complete requests handed to _extract_action_query: a word
\* in front, an action word of the branch, an id marker behind
QueryLeads ==
    {<<>>, <<"s~","u",SP>>, <<"g","o~","r","e","v","i",SP>>,
     <<"t","o","p","l","a","n","t","i",SP>>}

QueryMarks == {<<>>, <<SP,"#","1">>, <<SP,"1","2">>}

\* the action words of the two call sites (lines 475 and 489)
ActionWordLists == {DELETE_WORDS, COMPLETE_ACTION_WORDS}

QueryInputs ==
    {[op |-> "input", fn |-> "_extract_action_query",
      text |-> lead \o words[k] \o mark, action_words |-> words, out |-> None] :
        lead \in QueryLeads, mark \in QueryMarks,
        words \in ActionWordLists, k \in 1..4}

\* the titles handed to _normalize_task_title: blanks or a filler word in
\* front, a body, an end
TitleLeads == {<<>>, <<SP, SP>>, <<"b","a","n","a",SP>>, <<"L","u~","t","f","e","n",SP>>}

TitleBodies ==
    {<<>>, <<"s","u","n","u","m">>, <<"g","o~","r","e","v","i">>,
     <<"T","e","z",SP,"y","a","p","m","a","k">>, <<"i~","s~","i~","k">>}

TitleEnds == {<<>>, <<".">>, <<"!">>, <<"?">>, <<SP>>}

TitleParts == [lead : TitleLeads, body : TitleBodies, end : TitleEnds]

\* the title of its parts
PartsTitle(p) == p.lead \o p.body \o p.end

TitleInputs ==
    {[op |-> "input", fn |-> "_normalize_task_title", text |-> PartsTitle(p), out |-> None] :
        p \in TitleParts}

\* the messages handed to parse_task_text.  Two date words with a text
\* between them:
TwoDates == [first : 1..Len(DATE_WORDS), mid : {<<SP>>, <<SP,"t","e","z",SP>>},
             second : 1..Len(DATE_WORDS)]

\* the text of two date words
TwoDatesText(p) == DATE_WORDS[p.first] \o p.mid \o DATE_WORDS[p.second]

\* a date word or none, a week or month keyword or none, and a task
KeywordTexts ==
    {date \o keyword \o <<"s","u","n","u","m">> :
        date \in {<<>>, <<"y","a","r","i~","n",SP>>},
        keyword \in {<<>>, W_bu_hafta \o <<SP>>, <<"T","h","i","s",SP,"W","e","e","k",SP>>,
                     W_bu_ay \o <<SP>>, W_this_month \o <<SP>>,
                     <<"b","u",SP,SP,"h","a","f","t","a",SP>>,
                     <<"h","a","f","t","a",SP,"b","u",SP>>}}

ParseTexts ==
    {TwoDatesText(p) : p \in TwoDates} \cup KeywordTexts
    \cup {<<>>, <<"Y","a","r","i~","n",SP,"t","e","z",SP,"y","a","r","i~","n">>}

\* the instants of the calls: Wednesday 2024-01-03 10:00, Sunday 2024-01-07
\* 23:59, Wednesday 2024-01-31 00:00, Tuesday 2024-12-31 10:00
ParseNows ==
    {StartTime, 6 * MinutesPerDay + 23 * 60 + 59, 30 * MinutesPerDay,
     365 * MinutesPerDay + 10 * 60}

ParseInputs ==
    {[op |-> "input", fn |-> "parse_task_text", text |-> t, now |-> n, out |-> None] :
        t \in ParseTexts, n \in ParseNows}

\* the writers of the table tasks (task_service.py)
TaskWriters == {"create_task", "mark_done", "delete_task", "snooze_task", "set_reminded"}

\* the rows a table may hold under one id
RowsWithId(id) ==
    {[TaskRow(id, R_market, due_at, StartTime) EXCEPT !.status = status,
                                                       !.reminded_at = reminded_at] :
        due_at \in {NoTime, StartTime},
        status \in {"pending", "done"},
        reminded_at \in {NoTime, to_utc_iso(StartTime)}}

\* the tables of at most two tasks, with ids 1 and 2
SmallTables ==
    {a \cup b : a \in {{}} \cup {{t} : t \in RowsWithId(1)},
                b \in {{}} \cup {{t} : t \in RowsWithId(2)}}

\* a writer called on a table: with the id of a row, or with 3, an id the
\* table does not hold (for create_task, the id AUTOINCREMENT gives next)
WriterInputs ==
    {[op |-> "input", fn |-> fn, rows |-> rows,
      task_id |-> IF fn = "create_task" THEN 3 ELSE task_id,
      now |-> StartTime + 60, out |-> None] :
        fn \in TaskWriters, rows \in SmallTables, task_id \in 1..3}

CallInputs ==
    InstantInputs \cup DurationInputs \cup ResolverInputs \cup QueryInputs \cup TitleInputs
    \cup ParseInputs \cup WriterInputs

CallInit ==
    /\ now_local = StartTime
    /\ telegram_chat_id = None
    /\ tasks = {}
    /\ task_seq = 0
    /\ pending_tasks = {}
    /\ pending_seq = 0
    /\ last \in CallInputs
    /\ JobsIdle

\* the call of fn returns out
Return(fn, out) ==
    /\ last.op = "input"
    /\ last.fn = fn
    /\ last' = [last EXCEPT !.op = "return", !.out = out]
    /\ UNCHANGED <<now_local, telegram_chat_id, tasks, task_seq, pending_tasks, pending_seq,
                   job_vars, scan_vars>>

EndOfWeekCall == Return("end_of_week", end_of_week(last.now))

EndOfMonthCall == Return("end_of_month", end_of_month(last.now))

ParseDurationCall == Return("parse_duration", parse_duration(last.text))

\* last.text is the query
FindTaskCandidatesCall ==
    Return("_find_task_candidates",
           _find_task_candidates(last.text, last.task_list, last.limit))

ExtractActionQueryCall ==
    Return("_extract_action_query", _extract_action_query(last.text, last.action_words))

NormalizeTaskTitleCall == Return("_normalize_task_title", _normalize_task_title(last.text))

ParseTaskTextCall == Return("parse_task_text", parse_task_text(last.text, last.now))

\* what a writer returns and the table it leaves
Written(result, rows) == [result |-> result, rows |-> rows]

\* create_task(title, due_at): the INSERT
CreateTaskCall ==
    Return("create_task",
           Written(last.task_id,
                   last.rows \cup {TaskRow(last.task_id, R_market, last.now, last.now)}))

\* mark_done(task_id): False without the row, else the UPDATE and True
MarkDoneCall ==
    Return("mark_done",
           IF RowFound(last.rows, last.task_id)
           THEN Written(TRUE, mark_done(last.rows, last.task_id))
           ELSE Written(FALSE, last.rows))

\* delete_task(task_id): False without the row, else the DELETE and True
DeleteTaskCall ==
    Return("delete_task",
           IF RowFound(last.rows, last.task_id)
           THEN Written(TRUE, delete_task(last.rows, last.task_id))
           ELSE Written(FALSE, last.rows))

\* snooze_task(task_id, new_due_at): False without the row, else the UPDATE
\* and True
SnoozeTaskCall ==
    Return("snooze_task",
           IF RowFound(last.rows, last.task_id)
           THEN Written(TRUE, snooze_task(last.rows, last.task_id, last.now))
           ELSE Written(FALSE, last.rows))

\* set_reminded(task_id, reminded_at_iso): the UPDATE
SetRemindedCall ==
    Return("set_reminded",
           Written(None, set_reminded(last.rows, last.task_id, to_utc_iso(last.now))))

CallNext ==
    \/ CreateTaskCall
    \/ MarkDoneCall
    \/ DeleteTaskCall
    \/ SnoozeTaskCall
    \/ SetRemindedCall
    \/ EndOfWeekCall
    \/ EndOfMonthCall
    \/ ParseDurationCall
    \/ FindTaskCandidatesCall
    \/ ExtractActionQueryCall
    \/ NormalizeTaskTitleCall
    \/ ParseTaskTextCall

CallSpec == CallInit /\ [][CallNext]_vars

(***************************************************************************)
(* The reminder job beside the handlers that change tasks.  reminder_job   *)
(* is a coroutine: it reads the due tasks once and then, for each of them, *)
(* awaits send_message and calls set_reminded; while it waits, the command *)
(* and callback handlers run, and the web application writes to the same   *)
(* database at any time.  The job queue starts no second run of the job    *)
(* while one is running.                                                   *)
(***************************************************************************)

\* the hours the clock of this specification runs beyond StartTime
MaxHours == 1

\* the last hour of this specification: the clock stops there, and no snooze
\* gives a later due time
Horizon == StartTime + MaxHours * 60

\* the outcome of a step on one task
TaskEvent(op, reply, task_id) ==
    Event(op, Out(op, reply, task_id, <<>>, NoText, NoTime, <<>>))

\* the step leaves the scanner, the pending records and the setting alone
TasksAndJob ==
    UNCHANGED <<telegram_chat_id, pending_tasks, pending_seq, scan_vars>>

ReminderInit ==
    /\ now_local = StartTime
    /\ telegram_chat_id \in {None, FirstChat}
    /\ tasks = {}
    /\ task_seq = 0
    /\ pending_tasks = {}
    /\ pending_seq = 0
    /\ last = NoEvent
    /\ JobsIdle

\* the title of the tasks of this specification
ReminderTitle == <<"M","a","r","k","e","t",".">>

\* the due times a message or the web form gives a new task
DueInputs == {NoTime, now_local}

\* create_task(title, due_at), called by handle_message and by POST /tasks; the
\* tasks of this specification are created in its first hour
CreateTask(due_at) ==
    /\ task_seq < MaxTasks
    /\ now_local = StartTime
    /\ tasks' = tasks \cup {TaskRow(task_seq + 1, ReminderTitle, due_at, now_local)}
    /\ task_seq' = task_seq + 1
    /\ owed' = IF due_at /= NoTime THEN owed \cup {task_seq + 1} ELSE owed
    /\ last' = TaskEvent("create_task", "saved", task_seq + 1)
    /\ UNCHANGED <<now_local, reminder, raced>>
    /\ TasksAndJob

\* the ids the running job has read and not yet passed to set_reminded
Unmarked ==
    {reminder.due_tasks[k] : k \in {j \in 1..Len(reminder.due_tasks) : j >= reminder.i}}

\* the part of snooze_command and of the "snooze:" callback after the minutes
\* are known: get_task, the new due time, snooze_task
Snooze(op, task_id, minutes) ==
    LET task == get_task(tasks, task_id)
        base == IF task /= NoRow /\ task.due_at /= NoTime
                THEN from_iso_to_local(task.due_at)
                ELSE now_local
        new_due == base + minutes
    IN IF task = NoRow
       THEN /\ last' = TaskEvent(op, "not_found", task_id)
            /\ UNCHANGED <<tasks, owed, raced>>
       ELSE /\ new_due <= Horizon
            /\ tasks' = IF RowFound(tasks, task_id)
                        THEN snooze_task(tasks, task_id, new_due)
                        ELSE tasks
            /\ owed' = owed \cup {task_id}
            /\ raced' = IF task_id \in Unmarked THEN raced \cup {task_id} ELSE raced
            /\ last' = TaskEvent(op, "snoozed", task_id)

\* the duration texts of /snooze
SnoozeTexts == {<<"1",SP,"s","a","a","t">>, <<"s","o","n","r","a">>}

\* /snooze <id> <duration>
snooze_command(task_id, duration_text) ==
    LET minutes == parse_duration(duration_text)
    IN /\ IF minutes = NoMinutes
          THEN /\ last' = TaskEvent("snooze_task", "bad_duration", task_id)
               /\ UNCHANGED <<tasks, owed, raced>>
          ELSE Snooze("snooze_task", task_id, minutes)
       /\ UNCHANGED <<now_local, task_seq, reminder>>
       /\ TasksAndJob

\* the button "1 saat ertele" of a reminder: callback data snooze:<id>:60
snooze_callback(task_id) ==
    /\ Snooze("snooze_task", task_id, 60)
    /\ UNCHANGED <<now_local, task_seq, reminder>>
    /\ TasksAndJob

\* mark_done(task_id), called by /done, by the "done:" callback and by
\* POST /tasks/<id>/done
MarkDone(task_id) ==
    /\ tasks' = IF RowFound(tasks, task_id) THEN mark_done(tasks, task_id) ELSE tasks
    /\ last' = TaskEvent("mark_done", IF RowFound(tasks, task_id) THEN "done" ELSE "not_found",
                         task_id)
    /\ UNCHANGED <<now_local, task_seq, job_vars>>
    /\ TasksAndJob

\* delete_task(task_id), called by the "delete:" callback and by
\* POST /tasks/<id>/delete
DeleteTask(task_id) ==
    /\ tasks' = IF RowFound(tasks, task_id) THEN delete_task(tasks, task_id) ELSE tasks
    /\ last' = TaskEvent("delete_task",
                         IF RowFound(tasks, task_id) THEN "deleted" ELSE "not_found", task_id)
    /\ UNCHANGED <<now_local, task_seq, job_vars>>
    /\ TasksAndJob

\* reminder_job up to its loop: the query, then the setting
JobStart ==
    /\ reminder.pc = "idle"
    /\ LET now_iso == to_utc_iso(now_local)
       IN \E due_tasks \in due_tasks_for_reminder(tasks, now_iso) :
             IF due_tasks = <<>>
             THEN /\ reminder' = NoJob
                  /\ last' = TaskEvent("reminder_job", "nothing_due", NoId)
             ELSE IF telegram_chat_id = None
             THEN /\ reminder' = NoJob
                  /\ last' = TaskEvent("reminder_job", "no_chat", NoId)
             ELSE /\ reminder' = [pc |-> "send", now_iso |-> now_iso,
                                  due_tasks |-> due_tasks, i |-> 1]
                  /\ last' = TaskEvent("reminder_job", "started", NoId)
    /\ raced' = {}
    /\ UNCHANGED <<now_local, tasks, task_seq, owed>>
    /\ TasksAndJob

\* await context.bot.send_message(...) for the task at the job's position
JobSend ==
    /\ reminder.pc = "send"
    /\ reminder' = [reminder EXCEPT !.pc = "set_reminded"]
    /\ owed' = owed \ {reminder.due_tasks[reminder.i]}
    /\ last' = TaskEvent("reminder_job", "sent", reminder.due_tasks[reminder.i])
    /\ UNCHANGED <<now_local, tasks, task_seq, raced>>
    /\ TasksAndJob

\* send_message raises: the job ends there
JobSendFails ==
    /\ reminder.pc = "send"
    /\ reminder' = NoJob
    /\ last' = TaskEvent("reminder_job", "raise", reminder.due_tasks[reminder.i])
    /\ UNCHANGED <<now_local, tasks, task_seq, owed, raced>>
    /\ TasksAndJob

\* set_reminded(task["id"], now_iso), then the next task or the end of the job
JobSetReminded ==
    /\ reminder.pc = "set_reminded"
    /\ tasks' = set_reminded(tasks, reminder.due_tasks[reminder.i], reminder.now_iso)
    /\ reminder' = IF reminder.i < Len(reminder.due_tasks)
                   THEN [reminder EXCEPT !.pc = "send", !.i = @ + 1]
                   ELSE NoJob
    /\ last' = TaskEvent("reminder_job", "set_reminded", reminder.due_tasks[reminder.i])
    /\ UNCHANGED <<now_local, task_seq, owed, raced>>
    /\ TasksAndJob

\* an hour passes
HourTick ==
    /\ now_local < Horizon
    /\ now_local' = now_local + 60
    /\ UNCHANGED <<telegram_chat_id, tasks, task_seq, pending_tasks, pending_seq, last,
                   job_vars, scan_vars>>

\* the ids a command, a button or a form may name
NamedIds == 1..MaxTasks

ReminderNext ==
    \/ \E due_at \in DueInputs : CreateTask(due_at)
    \/ \E task_id \in NamedIds, duration_text \in SnoozeTexts :
          snooze_command(task_id, duration_text)
    \/ \E task_id \in NamedIds : snooze_callback(task_id)
    \/ \E task_id \in NamedIds : MarkDone(task_id)
    \/ \E task_id \in NamedIds : DeleteTask(task_id)
    \/ JobStart
    \/ JobSend
    \/ JobSendFails
    \/ JobSetReminded
    \/ HourTick

ReminderSpec == ReminderInit /\ [][ReminderNext]_vars

(***************************************************************************)
(* The paper scanner (paper_scanner.py) over the table papers.             *)
(* scan_papers is a plain function called by scan_job and by /scan: a run  *)
(* ends before the next one starts.                                        *)
(***************************************************************************)

\* the values of MAX_PAPERS_PER_DAY: int() takes any integer
PaperLimits == {0 - 1, 0, 1, 2}

\* the most papers one service returns in this specification
MaxFetched == 2

\* max_results = CONFIG.max_papers_per_day if CONFIG.max_papers_per_day > 0 else 200
max_results == IF max_papers_per_day > 0 THEN max_papers_per_day ELSE 200

\* what a service may return: at most max_results entries; [] stands for a
\* failed request as well
Fetched ==
    UNION {[1..n -> PaperIds] : n \in {m \in 0..MaxFetched : m <= max_results}}

\* INSERT INTO papers(source, source_id, ...)
PaperRow(id, source, source_id) ==
    [id |-> id, source |-> source, source_id |-> source_id, summary |-> FALSE]

StoredAs(paper_id, rows, seq) == [paper_id |-> paper_id, rows |-> rows, seq |-> seq]

\* store_paper on a table without UNIQUE(source, source_id)
store_paper_twice(rows, seq, source, source_id) ==
    IF source_id = None
    THEN StoredAs(NoId, rows, seq)
    ELSE StoredAs(seq + 1, rows \cup {PaperRow(seq + 1, source, source_id)}, seq + 1)

\* store_paper: the id of the new row, or no id when the INSERT fails (source_id
\* NOT NULL, UNIQUE(source, source_id))
store_paper(rows, seq, source, source_id) ==
    IF source_id = None \/ \E p \in rows : p.source = source /\ p.source_id = source_id
    THEN StoredAs(NoId, rows, seq)
    ELSE StoredAs(seq + 1, rows \cup {PaperRow(seq + 1, source, source_id)}, seq + 1)

\* UPDATE papers SET relevance_score = ?, summary = ?, tags = ? WHERE id = ?
update_analysis(rows, paper_id) ==
    {IF p.id = paper_id THEN [p EXCEPT !.summary = TRUE] ELSE p : p \in rows}

\* the papers of one service, each with its source
FromSource(k, fetched) ==
    [i \in 1..Len(fetched) |-> [source |-> PaperSources[k], source_id |-> fetched[i]]]

ScanInit ==
    /\ now_local = StartTime
    /\ telegram_chat_id = None
    /\ tasks = {}
    /\ task_seq = 0
    /\ pending_tasks = {}
    /\ pending_seq = 0
    /\ last = NoEvent
    /\ reminder = NoJob
    /\ owed = {}
    /\ raced = {}
    /\ max_papers_per_day \in PaperLimits
    /\ papers = {}
    /\ paper_seq = 0
    /\ scan = NoScan
    /\ counted = NoCount

\* a scan leaves the tasks, the pending records and the reminder job alone
ScanOnly ==
    UNCHANGED <<now_local, telegram_chat_id, tasks, task_seq, pending_tasks, pending_seq,
                last, job_vars, max_papers_per_day>>

\* scan_papers up to its loops: the two requests and the counters
ScanStart(arxiv_papers, semantic_papers) ==
    /\ scan.pc \in {"idle", "returned"}
    /\ scan' = [pc |-> "loop",
                queue |-> FromSource(1, arxiv_papers) \o FromSource(2, semantic_papers),
                new_papers |-> 0, analyzed |-> 0,
                analysis_budget |-> max_papers_per_day, failed |-> 0]
    /\ UNCHANGED <<papers, paper_seq, counted>>
    /\ ScanOnly

\* one pass of the loops `for paper in arxiv_papers` and `for paper in
\* semantic_papers`: store_paper, and for a new paper within the budget
\* analyze_paper and update_analysis, which return or raise
ScanPaper(analysis) ==
    /\ scan.pc = "loop"
    /\ scan.queue /= <<>>
    /\ LET paper == Head(scan.queue)
           stored == store_paper(papers, paper_seq, paper.source, paper.source_id)
           is_new == stored.paper_id /= NoId
           analyze == is_new /\ scan.analysis_budget > 0
           key == <<paper.source, paper.source_id>>
       IN /\ analyze \/ analysis = "ok"
          /\ paper_seq' = stored.seq
          /\ counted' = IF is_new THEN [counted EXCEPT ![key] = @ + 1] ELSE counted
          /\ papers' = IF analyze /\ analysis = "ok"
                       THEN update_analysis(stored.rows, stored.paper_id)
                       ELSE stored.rows
          /\ scan' = [scan EXCEPT
                        !.queue = Tail(@),
                        !.new_papers = IF is_new THEN @ + 1 ELSE @,
                        !.analyzed = IF analyze /\ analysis = "ok" THEN @ + 1 ELSE @,
                        !.analysis_budget = IF analyze /\ analysis = "ok" THEN @ - 1 ELSE @,
                        !.failed = IF analyze /\ analysis = "raise" THEN @ + 1 ELSE @]
    /\ ScanOnly

\* set_setting("last_scan", fetched_at) and the return of the two counters
ScanReturn ==
    /\ scan.pc = "loop"
    /\ scan.queue = <<>>
    /\ scan' = [scan EXCEPT !.pc = "returned"]
    /\ UNCHANGED <<papers, paper_seq, counted>>
    /\ ScanOnly

ScanNext ==
    \/ \E arxiv_papers \in Fetched, semantic_papers \in Fetched :
          ScanStart(arxiv_papers, semantic_papers)
    \/ \E analysis \in {"ok", "raise"} : ScanPaper(analysis)
    \/ ScanReturn

ScanSpec == ScanInit /\ [][ScanNext]_vars

(***************************************************************************)
(* Properties of handle_message, read off the last update handled          *)
(***************************************************************************)

\* the last update was a text message
Message == last.op = "message"

\* what parse_task_text made of it
Parsed == ParseOf(last.text, last.now)

\* get_pending_task returned a record to it
HadPending == Message /\ last.pending /= NoRow

\* get_pending_task returned None to it
HadNoPending == Message /\ last.pending = NoRow

\* C1: while a pending record exists a message is a date answer whatever
\* keywords it holds: no summary, no confirmation, no picker and no new draft;
\* it either creates the task with the pending title or asks for the date again.
PendingOverridesCategories ==
    HadPending =>
        /\ last.out.branch = "pending"
        /\ last.out.reply \in {"saved", "ask_again"}
        /\ CountOp(last.out.writes, "add_pending_task") = 0
        /\ last.out.reply = "saved" =>
              /\ CountOp(last.out.writes, "create_task") = 1
              /\ last.out.writes[1] = WCreateTask(last.pending.title, Parsed.due_at)
        /\ last.out.reply = "ask_again" => CountOp(last.out.writes, "create_task") = 0

\* a delete request came from the chat that owns the pending record
PendingOverridesReached ==
    /\ HadPending
    /\ last.pending.chat_id = last.chat
    /\ CascadeOf(last.text) = "delete"
    /\ last.out.reply = "ask_again"

\* C2: a message with a due instant that answers a draft creates exactly one
\* task, titled as the draft and due at that instant, and removes the draft,
\* so that the message after it is classified by category.
PendingRoundTrip ==
    (HadPending /\ Parsed.due_at /= NoTime) =>
        /\ last.out.writes = <<WCreateTask(last.pending.title, Parsed.due_at),
                               WClearPending(last.pending.id)>>
        /\ \E t \in tasks : /\ t.id = task_seq
                            /\ t.title = last.pending.title
                            /\ t.due_at = to_utc_iso(Parsed.due_at)
        /\ \A p \in pending_tasks : p.id /= last.pending.id
        /\ \A chat \in Chats :
              \A p \in get_pending_task(pending_tasks, _get_chat_id(telegram_chat_id, chat)) :
                 \A text \in MsgTexts : Branch(text, p) = CascadeOf(text)

\* the answer carried a title of its own, which is not the task's
PendingRoundTripReached ==
    /\ HadPending
    /\ last.out.reply = "saved"
    /\ NormalizeOf(Parsed.title) /= last.pending.title
    /\ Parsed.title /= last.pending.title
    /\ \E t \in tasks : t.id = task_seq /\ t.title = last.pending.title

\* C3: a message without a due instant leaves the pending record as it is,
\* creates no task and is answered by the question for the time.
PendingKeptWithoutDate ==
    (HadPending /\ Parsed.due_at = NoTime) =>
        /\ last.out.reply = "ask_again"
        /\ last.out.writes = <<>>
        /\ last.pending \in pending_tasks
        /\ get_pending_task(pending_tasks, last.chat_id) = {last.pending}

\* a greeting was sent while the draft waited
PendingKeptReached ==
    /\ HadPending
    /\ CascadeOf(last.text) = "plain"
    /\ last.out.reply = "ask_again"
    /\ last.pending \in pending_tasks

\* C4: pending_tasks holds at most one record for a conversation id.
OnePendingPerConversation ==
    \A p, q \in pending_tasks : p.chat_id = q.chat_id => p = q

\* a second draft was armed after the first was answered
SecondDraftReached == pending_seq = 2 /\ Cardinality(pending_tasks) = 1

\* a task-like message without a date arrived while a draft with another title
\* waited
NewDraftWhilePending ==
    /\ HadPending
    /\ looks_like_task(last.text)
    /\ Parsed.due_at = NoTime
    /\ NormalizeOf(Parsed.title) /= last.pending.title

\* C5, as stated: the earlier draft is dropped and the new message's draft
\* becomes the pending one.
LastWriterWins ==
    NewDraftWhilePending =>
        /\ last.pending \notin pending_tasks
        /\ \E p \in pending_tasks : /\ p.chat_id = last.chat_id
                                    /\ p.title = NormalizeOf(Parsed.title)

\* C5, as the code has it: the earlier draft stays the pending one and the new
\* message arms nothing, so the next date answer creates the earlier title.
FirstWriterWins ==
    NewDraftWhilePending =>
        /\ last.out.reply = "ask_again"
        /\ CountOp(last.out.writes, "add_pending_task") = 0
        /\ CountOp(last.out.writes, "clear_pending_task") = 0
        /\ get_pending_task(pending_tasks, last.chat_id) = {last.pending}
        /\ \A text \in MsgTexts :
              ParseOf(text, now_local).due_at /= NoTime =>
                 PendingAnswer(last.pending, text, now_local).title = last.pending.title

\* such a message came from the chat that owns the draft, which was kept
FirstWriterWinsReached ==
    /\ NewDraftWhilePending
    /\ last.pending.chat_id = last.chat
    /\ last.pending \in pending_tasks

\* C6: a message is taken as a date answer only on a pending record of its own
\* conversation.
ConversationsIndependent ==
    (Message /\ last.out.branch = "pending") => last.pending.chat_id = last.chat

\* the category of a branch: the templates reply is one of the plain replies
CategoryOf(branch) == IF branch = "template" THEN "plain" ELSE branch

\* the first category that matches in the order Summary, Delete, Complete,
\* TaskLike, Plain
FirstCategory(text) ==
    IF _is_summary_request(text) THEN "summary"
    ELSE IF _is_delete_request(text) THEN "delete"
    ELSE IF _is_complete_request(text) THEN "complete"
    ELSE IF looks_like_task(text) THEN "task"
    ELSE "plain"

\* the replies each branch can end in
RepliesOf(branch) ==
    CASE branch = "summary" -> {"summary"}
      [] branch = "template" -> {"templates"}
      [] branch \in {"delete", "complete"} ->
            {"confirm", "not_found", "no_match", "pick", "raise"}
      [] branch = "task" -> {"ask_when", "saved"}
      [] OTHER -> {"task_list", "goal_added", "greeting", "thanks", "whoami", "fallback",
                   "raise"}

\* C7, as stated: with no pending record the first category that matches in the
\* order Summary > Delete > Complete > TaskLike > Plain decides the action.
CategoryOrderAsStated ==
    HadNoPending => CategoryOf(last.out.branch) = FirstCategory(last.text)

\* C7, as the code has it: the order is Summary > Template > Delete > Complete >
\* TaskLike > Plain, where Template is a message holding one of the template
\* words; a keyword of a category and none of a higher one gives its action.
CategoryOrder ==
    HadNoPending =>
        LET text == last.text
            summary == _is_summary_request(text)
            template == IsTemplateRequest(text)
            delete == _is_delete_request(text)
            complete == _is_complete_request(text)
            task == looks_like_task(text)
        IN /\ summary => last.out.branch = "summary"
           /\ (template /\ ~summary) => last.out.branch = "template"
           /\ (delete /\ ~summary /\ ~template) => last.out.branch = "delete"
           /\ (complete /\ ~summary /\ ~template /\ ~delete) => last.out.branch = "complete"
           /\ (task /\ ~summary /\ ~template /\ ~delete /\ ~complete) =>
                 last.out.branch = "task"
           /\ (~summary /\ ~template /\ ~delete /\ ~complete /\ ~task) =>
                 last.out.branch = "plain"
           /\ last.out.reply \in RepliesOf(last.out.branch)

\* a message with a template word and a delete word got the templates
CategoryOrderReached ==
    /\ HadNoPending
    /\ IsTemplateRequest(last.text)
    /\ _is_delete_request(last.text)
    /\ last.out.reply = "templates"

\* C8: with no pending record a message holding a summary keyword and a task
\* keyword is answered with the summary; no task is created, no draft armed.
SummaryBeatsTask ==
    (HadNoPending /\ _is_summary_request(last.text) /\ looks_like_task(last.text)) =>
        /\ last.out.reply = "summary"
        /\ last.out.writes = <<>>

\* such a message was answered
SummaryBeatsTaskReached ==
    /\ HadNoPending
    /\ _is_summary_request(last.text)
    /\ looks_like_task(last.text)
    /\ last.out.reply = "summary"

RECURSIVE DigitRunEnd(_, _)
\* the end of the run of digits that starts at position i
DigitRunEnd(t, i) == IF i + 1 <= Len(t) /\ t[i + 1] \in Digits THEN DigitRunEnd(t, i + 1) ELSE i

\* the text holds '#<id>' or a bare digit token
HasExplicitId(text) == \E i \in 1..Len(text) : text[i] \in Digits

\* the number of its first digit token
ExplicitId(text) ==
    LET i == CHOOSE k \in 1..Len(text) :
                 text[k] \in Digits /\ \A j \in 1..(k - 1) : text[j] \notin Digits
    IN IntOf(SubSeq(text, i, DigitRunEnd(text, i)))

\* the last update was a delete or complete request
ActionRequested == HadNoPending /\ last.out.branch \in {"delete", "complete"}

\* C9: a delete or complete request that holds an explicit id is answered with
\* the confirmation for that id.
ExplicitIdConfirmsDirectly ==
    (ActionRequested /\ HasExplicitId(last.text)) =>
        /\ last.out.reply \in {"confirm", "not_found"}
        /\ last.out.id = ExplicitId(last.text)

\* the ids of a list of tasks, in its order
IdsOf(task_list) == [i \in 1..Len(task_list) |-> task_list[i].id]

\* the outcome for the candidates resolved
OutcomeFor(candidates) ==
    /\ Len(candidates) = 0 => last.out.reply = "no_match"
    /\ Len(candidates) = 1 =>
          last.out.reply = "confirm" /\ last.out.id = candidates[1].id
    /\ Len(candidates) >= 2 =>
          last.out.reply = "pick" /\ last.out.cands = IdsOf(candidates)

\* C10: a delete or complete request without an explicit id ends as the number
\* of resolved candidates says: none gives the no-match reply, one the
\* confirmation for its id, two or more the picker in resolver order.
OutcomeByCandidateCount ==
    (ActionRequested /\ ~HasExplicitId(last.text)) =>
        \E open_tasks \in list_tasks(tasks, "pending", 50) :
           OutcomeFor(_find_task_candidates(QueryOf(last.text, last.out.branch),
                                            open_tasks, CandidateLimit))

\* the message holds a task keyword and no keyword of a test made before
\* looks_like_task
TaskLikeOnly(text) ==
    /\ looks_like_task(text)
    /\ ~_is_summary_request(text)
    /\ ~IsTemplateRequest(text)
    /\ ~_is_delete_request(text)
    /\ ~_is_complete_request(text)

\* the last update was a task-like message that found no pending record
TaskLikeHandled == HadNoPending /\ TaskLikeOnly(last.text)

\* the pending records stored under the key of the last message
DraftsOfLast == {p \in pending_tasks : p.chat_id = last.chat_id}

\* C11: a task-like message with no pending record and a due instant creates
\* exactly one task, with the normalized title and that instant, and arms no
\* pending record; without an instant it creates no task, arms one pending
\* record with the normalized title and asks for the date.
TaskLikeCreatesOrArms ==
    TaskLikeHandled =>
        IF Parsed.due_at /= NoTime
        THEN /\ last.out.reply = "saved"
             /\ last.out.writes = <<WCreateTask(NormalizeOf(Parsed.title), Parsed.due_at)>>
             /\ TaskRow(task_seq, NormalizeOf(Parsed.title), Parsed.due_at, last.now) \in tasks
             /\ DraftsOfLast = {}
        ELSE /\ last.out.reply = "ask_when"
             /\ CountOp(last.out.writes, "create_task") = 0
             /\ DraftsOfLast = {PendingRow(pending_seq, last.chat_id,
                                            NormalizeOf(Parsed.title), to_utc_iso(last.now))}

\* a dated task-like message has been saved under a title the normalizer changed
TaskLikeSavedReached ==
    /\ TaskLikeHandled
    /\ Parsed.due_at /= NoTime
    /\ last.out.reply = "saved"
    /\ NormalizeOf(Parsed.title) /= Parsed.title
    /\ \E t \in tasks : t.id = task_seq /\ t.title = NormalizeOf(Parsed.title)

\* C12: every text message is answered with exactly one reply: no call of
\* handle_message ends without having sent one.
ExactlyOneReply == Message => last.out.reply /= "raise"

\* the writes one call makes to pending_tasks
PendingWrites(writes) ==
    CountOp(writes, "add_pending_task") + CountOp(writes, "clear_pending_task")

\* the rows by which two tables differ
RowsChanged(before, after) == (before \ after) \cup (after \ before)

\* C13: one call of handle_message writes the pending store at most once: it
\* arms one record, or clears one, or leaves the store alone, and never both
\* arms and clears.
PendingWrittenAtMostOnce ==
    [][last'.op = "message" =>
          /\ PendingWrites(last'.out.writes) <= 1
          /\ Cardinality(RowsChanged(pending_tasks, pending_tasks')) <= 1
          /\ pending_seq' - pending_seq <= 1]_vars

\* a date answer has cleared the record that was read at entry, and armed none
PendingClearedOnceReached ==
    /\ HadPending
    /\ PendingWrites(last.out.writes) = 1
    /\ last.pending \notin pending_tasks
    /\ DraftsOfLast = {}

\* the step handles a message that answers the pending record p with a due
\* instant and creates exactly one task
DateAnswerTo(p) ==
    /\ last'.op = "message"
    /\ last'.pending = p
    /\ ParseOf(last'.text, last'.now).due_at /= NoTime
    /\ task_seq' = task_seq + 1
    /\ Cardinality(tasks' \ tasks) = 1

\* C27: a pending record leaves the store, or changes, only in a step that
\* handles a message of its own conversation which yields a due instant and
\* creates exactly one task; no other update touches it.
PendingRemovedOnlyByDateAnswer ==
    [][\A p \in pending_tasks :
          p \notin pending_tasks' => (DateAnswerTo(p) /\ last'.chat = p.chat_id)]_vars

\* C28: a delete or complete request whose identifier cannot be parsed as a
\* task id (it holds no digit) is handled as one without an id: candidates
\* are resolved for its query, no error is raised and no table is written.
UnparsableIdFallsThrough ==
    (ActionRequested /\ ~HasExplicitId(last.text)) =>
        /\ last.out.reply \in {"no_match", "confirm", "pick"}
        /\ last.out.writes = <<>>

\* the step is the confirmation callback of the kind that answers with reply
\* for task t
ConfirmedBy(reply, t) ==
    /\ last'.op = "callback"
    /\ last'.out.reply = reply
    /\ last'.out.id = t.id

\* C30: a step of handle_message leaves every row of tasks as it is; a task
\* leaves the table only in handle_callback on 'delete:<id>', and a task is
\* set done only on 'done:<id>' in handle_callback or by the /done command.
FreeTextNeverChangesTasks ==
    [][\A t \in tasks :
          /\ last'.op = "message" => t \in tasks'
          /\ (\A u \in tasks' : u.id /= t.id) => ConfirmedBy("deleted", t)
          /\ (t.status = "pending" /\ [t EXCEPT !.status = "done"] \in tasks') =>
                (ConfirmedBy("done", t) \/ last'.op = "done_command")]_vars

\* a free-text delete or complete request has been answered with the
\* confirmation for a task, which is still in the table and open
ConfirmationAskedReached ==
    /\ ActionRequested
    /\ last.out.reply = "confirm"
    /\ \E t \in tasks : t.id = last.out.id /\ t.status = "pending"

(***************************************************************************)
(* Properties of the functions, read off the call that has returned        *)
(***************************************************************************)

\* the call of fn has returned
Returned(fn) == last.op = "return" /\ last.fn = fn

\* the Monday-to-Sunday week of an instant, counted from that of 2024-01-01
WeekOf(dt) == DayOf(dt) \div 7

\* 23:59 as a time of day
LastMinute == 23 * 60 + 59

\* C14: end_of_week(now) lies in the Monday-to-Sunday week of now, on its
\* Sunday, at 23:59.
EndOfWeekIsSunday ==
    Returned("end_of_week") =>
        /\ WeekOf(last.out) = WeekOf(last.now)
        /\ Weekday(last.out) = 6
        /\ TimeOfDay(last.out) = LastMinute

\* end_of_week has returned for a Sunday at 23:59, the last instant of a week
EndOfWeekOnSundayReached ==
    /\ Returned("end_of_week")
    /\ Weekday(last.now) = 6
    /\ TimeOfDay(last.now) = LastMinute
    /\ last.out = last.now

\* C15: end_of_month(now) lies in the month and year of now, on the last day
\* of that month, at 23:59.
EndOfMonthIsLastDay ==
    Returned("end_of_month") =>
        /\ Civil(last.out).year = Civil(last.now).year
        /\ Civil(last.out).month = Civil(last.now).month
        /\ Civil(last.out).day = DaysInMonth(Civil(last.now).year, Civil(last.now).month)
        /\ TimeOfDay(last.out) = LastMinute

\* the minutes the units stand for: dakika and dk one, saat 60, the day units
\* 1440
MinutesPerUnit == <<1, 1, 60, 1440, 1440>>

\* C16: parse_duration returns value for the minute units, value * 60 for the
\* hour unit and value * 1440 for the day units, returns None for a text
\* without a number followed by a recognized unit, and never raises.
DurationByUnit ==
    Returned("parse_duration") =>
        /\ \A p \in DurationPairs :
              last.text = PairText(p) => last.out = IntOf(p.number) * MinutesPerUnit[p.unit]
        /\ last.text \in NoPairTexts => last.out = NoMinutes
        /\ last.out /= ValueError

\* parse_duration has returned 1440 for one day written with u-umlaut
DurationOfDayReached ==
    /\ Returned("parse_duration")
    /\ last.text = <<"1", SP, "g", "u~", "n">>
    /\ last.out = 1440

\* the resolver has returned for a query
Resolved == Returned("_find_task_candidates")

\* C17: for an empty query the resolver returns the open-task list cut to
\* limit, in the order of the list, with no task left out.
EmptyQueryTruncates ==
    (Resolved /\ last.text = <<>>) =>
        /\ Len(last.out) = IF Len(last.task_list) < last.limit
                           THEN Len(last.task_list) ELSE last.limit
        /\ \A i \in 1..Len(last.out) : last.out[i] = last.task_list[i]

\* an empty query has returned the first two of three tasks, an undated task
\* in front of a dated one as in the list
EmptyQueryCutReached ==
    /\ Resolved
    /\ last.text = <<>>
    /\ Len(last.task_list) = 3
    /\ Len(last.out) = 2
    /\ last.out[1].due_at = NoTime
    /\ last.out[2].due_at /= NoTime

\* the resolver has returned for a non-empty query
ResolvedQuery == Resolved /\ last.text /= <<>>

\* the score as stated: 3 if the query is a substring of the lowered title,
\* plus the number of tokens the query and the title share
StatedScore(query, title) ==
    (IF \E i \in 1..(Len(Lower(title)) - Len(query) + 1) :
           SubSeq(Lower(title), i, i + Len(query) - 1) = query
     THEN 3 ELSE 0)
    + Cardinality({token \in _tokenize(query) : token \in _tokenize(Lower(title))})

\* the positions of the list whose task scores more than 0 for the query asked
Scoring == {i \in 1..Len(last.task_list) :
               StatedScore(last.text, last.task_list[i].title) > 0}

\* the list of the example: task 1 'Danisman toplantisi', task 2 'Market
\* alisverisi' (written with the Turkish letters)
ExampleAsked ==
    /\ last.text = Q_danisman
    /\ Len(last.task_list) = 2
    /\ last.task_list[1].title = R_danisman
    /\ last.task_list[2].title = R_market

\* C18: for a non-empty query only tasks of score greater than 0 are
\* returned, and all of them unless the limit cuts the list; for the query
\* 'danisman' on the two tasks of the example the result is task 1 alone.
OnlyScoringTasksReturned ==
    ResolvedQuery =>
        /\ \A k \in 1..Len(last.out) : \E i \in Scoring : last.out[k] = last.task_list[i]
        /\ \A k, j \in 1..Len(last.out) : k /= j => last.out[k] /= last.out[j]
        /\ Len(last.out) = IF Cardinality(Scoring) < last.limit
                           THEN Cardinality(Scoring) ELSE last.limit
        /\ ExampleAsked => Len(last.out) = 1 /\ last.out[1].id = 1

\* the example has returned task 1 alone
ExampleResolvedReached ==
    /\ ResolvedQuery
    /\ ExampleAsked
    /\ last.out = <<last.task_list[1]>>

\* the score of a task for the query asked
ScoreAsked(task) == StatedScore(last.text, task.title)

\* task a comes before task b: by the higher score, then a task with a due
\* date before one without, then by the place in the list (the id)
ComesBefore(a, b) ==
    \/ ScoreAsked(a) > ScoreAsked(b)
    \/ /\ ScoreAsked(a) = ScoreAsked(b)
       /\ a.due_at /= NoTime
       /\ b.due_at = NoTime
    \/ /\ ScoreAsked(a) = ScoreAsked(b)
       /\ (a.due_at = NoTime) = (b.due_at = NoTime)
       /\ a.id < b.id

\* the tasks the resolver returned
Returns == {last.out[k] : k \in 1..Len(last.out)}

\* C19: the candidates are in the order of non-increasing score, equal
\* scores with the dated tasks first, equal on both in the order of the
\* list; there are at most limit of them and no task left out comes before
\* one returned.
CandidatesOrdered ==
    ResolvedQuery =>
        /\ \A k \in 1..(Len(last.out) - 1) : ComesBefore(last.out[k], last.out[k + 1])
        /\ Len(last.out) <= last.limit
        /\ \A i \in Scoring :
              last.task_list[i] \notin Returns =>
                  \A task \in Returns : ComesBefore(task, last.task_list[i])

\* of three scoring tasks the last of the list, dated, has been returned
\* first, an undated one of the same score second, and the first of the list,
\* of a lower score, has been cut
DatedFirstReached ==
    /\ ResolvedQuery
    /\ Cardinality(Scoring) = 3
    /\ Len(last.out) = 2
    /\ last.out[1].id = 3
    /\ last.out[2].id = 2
    /\ ScoreAsked(last.out[1]) = ScoreAsked(last.out[2])
    /\ ScoreAsked(last.task_list[1]) < ScoreAsked(last.out[2])

\* the word characters: letters, digits and the underscore
WordChars == LowerLetters \cup UpperLetters \cup Digits \cup {"_"}

\* the words of a text as stated: the text in lower case split on non-word
\* characters, the pieces longer than 2 kept
WordsOf(text) ==
    LET t == Lower(text)
        starts == {i \in 1..Len(t) :
                      t[i] \in WordChars /\ (i = 1 \/ t[i - 1] \notin WordChars)}
    IN {SubSeq(t, i, RunEnd(t, i, WordChars) - 1) :
           i \in {j \in starts : RunEnd(t, j, WordChars) - j > 2}}

\* C20: a task whose title shares a word longer than 2 characters with the
\* query is a candidate, whether or not the query is a substring of the
\* title: it is returned unless the limit cuts the list.
SharedWordIsCandidate ==
    ResolvedQuery =>
        \A i \in 1..Len(last.task_list) :
           WordsOf(last.text) \cap WordsOf(last.task_list[i].title) /= {} =>
               \/ last.task_list[i] \in Returns
               \/ Len(last.out) = last.limit

\* the standalone words of a text: its longest runs of word characters
StandaloneWords(t) ==
    {SubSeq(t, i, RunEnd(t, i, WordChars) - 1) :
        i \in {j \in 1..Len(t) : t[j] \in WordChars /\ (j = 1 \/ t[j - 1] \notin WordChars)}}

\* C21: the query _extract_action_query returns holds none of the action
\* words it was called with, none of the task-reference pronouns and nouns as
\* a standalone word, and no task-id marker: no digit of the message is left.
QueryIsClean ==
    Returned("_extract_action_query") =>
        /\ ~ContainsAny(last.out, last.action_words)
        /\ \A k \in 1..Len(QUERY_STRIP) : QUERY_STRIP[k] \notin StandaloneWords(last.out)
        /\ \A i \in 1..Len(last.out) : last.out[i] \notin Digits

\* the normalizer has returned a title
Normalized == Returned("_normalize_task_title")

\* the filler and imperative words the normalizer strips
StrippedWords ==
    {TITLE_STRIP_1[k] : k \in 1..Len(TITLE_STRIP_1)}
    \cup {TITLE_STRIP_2[k] : k \in 1..Len(TITLE_STRIP_2)}

\* stripping leaves nothing of the title: it is made of blanks and stripped
\* words alone
OnlyStrippedWords(title) ==
    /\ StandaloneWords(Lower(title)) \subseteq StrippedWords
    /\ \A i \in 1..Len(title) : title[i] \in WordChars \cup {SP}

\* C22: the normalized title is never empty: when stripping leaves nothing,
\* the normalizer returns the placeholder title.
NormalizedTitleNeverEmpty ==
    Normalized =>
        /\ last.out /= <<>>
        /\ OnlyStrippedWords(last.text) => last.out = W_gorev_dot

\* '.', '!' and '?'
Terminal == {".", "!", "?"}

\* C23: a title the normalizer returns starts with a capital (its first
\* character is no lower-case letter) and ends with '.', '!' or '?'; the
\* period is appended exactly when the text did not end with one of them.
TitleIsSentence ==
    Normalized =>
        /\ last.out /= <<>>
        /\ Head(last.out) \notin LowerLetters
        /\ last.out[Len(last.out)] \in Terminal
        /\ \A p \in TitleParts :
              (last.text = PartsTitle(p) /\ Len(last.out) > 1) =>
                  /\ last.out[Len(last.out) - 1] \notin Terminal
                  /\ p.end \in {<<c>> : c \in Terminal} => last.out[Len(last.out)] = p.end[1]
                  /\ p.end \notin {<<c>> : c \in Terminal} => last.out[Len(last.out)] = "."

\* parse_task_text has returned
ParsedText == Returned("parse_task_text")

OnlyLastPhrase(p) == p.first = p.second /\ p.mid = <<SP>>

HasRelativeKeyword(text) ==
    \E w \in {W_bu_hafta, W_this_week, W_bu_ay, W_this_month} : Contains(Lower(text), w)

\* C25: for a text in which the date search finds no phrase and which holds
\* none of the week and month keywords, parse_task_text returns a title and
\* no due instant.
NoDateGivesNone ==
    (ParsedText /\ search_dates(last.text, last.now) = <<>> /\ ~HasRelativeKeyword(last.text)) =>
        /\ DOMAIN last.out = {"title", "due_at"}
        /\ last.out.due_at = NoTime

\* a text with the words of the week keyword in the other order has returned
\* no due instant
NoDateGivesNoneReached ==
    /\ ParsedText
    /\ last.text = <<"h","a","f","t","a",SP,"b","u",SP,"s","u","n","u","m">>
    /\ last.out.due_at = NoTime

\* 23:59 on the Sunday of the Monday-to-Sunday week of an instant
SundayOf(dt) == (WeekOf(dt) * 7 + 6) * MinutesPerDay + LastMinute

\* 23:59 on the last day of the month of an instant
MonthEndOf(dt) ==
    (DaysBeforeMonth(Civil(dt).year, Civil(dt).month)
     + DaysInMonth(Civil(dt).year, Civil(dt).month) - 1) * MinutesPerDay + LastMinute

\* the text holds a week keyword
HasWeekKeyword(text) ==
    Contains(Lower(text), W_bu_hafta) \/ Contains(Lower(text), W_this_week)

\* C26: a message with a week keyword is due on the Sunday of the current
\* week at 23:59, one with a month keyword (and no week keyword) at 23:59 on
\* the last day of the current month, whatever date words it holds besides.
RelativeKeywordDecides ==
    ParsedText =>
        /\ HasWeekKeyword(last.text) => last.out.due_at = SundayOf(last.now)
        /\ (HasRelativeKeyword(last.text) /\ ~HasWeekKeyword(last.text)) =>
              last.out.due_at = MonthEndOf(last.now)

\* C29: of several '<integer> <unit>' pairs in a text parse_duration uses the
\* first in reading order and ignores the rest.
FirstPairDecides ==
    Returned("parse_duration") =>
        \A p, q \in ShortPairs :
           last.text = TwoPairsText(p, q) =>
               last.out = IntOf(p.number) * MinutesPerUnit[p.unit]

\* parse_duration has returned 120 for '2 saat 30 dk'
FirstPairDecidesReached ==
    /\ Returned("parse_duration")
    /\ last.text = <<"2",SP,"s","a","a","t",SP,"3","0",SP,"d","k">>
    /\ last.out = 120

(***************************************************************************)
(* Properties of the reminder job (ReminderSpec)                           *)
(***************************************************************************)

\* the job is not running: before its first run, or after a run has finished
JobFinished == reminder.pc = "idle"

\* C31: a snooze is never lost to a running reminder job: a task snoozed while
\* the job was between its query and its set_reminded call for that task has
\* reminded_at = NULL once the job has finished
SnoozeSurvivesJob ==
    JobFinished =>
        \A t \in tasks : t.id \in raced => t.reminded_at = NoTime

\* the step in which the job sends the reminder of task_id
SendStep(task_id) ==
    /\ reminder.pc = "send"
    /\ reminder'.pc = "set_reminded"
    /\ reminder.due_tasks[reminder.i] = task_id

\* C32: a task gets at most one reminder per due time: a reminder is sent only
\* for a task that was created with a due time or snoozed since its last
\* reminder, and a task snoozed since its last reminder is unmarked
\* (reminded_at = NULL), so that a later run selects it once more
OneReminderPerDueTime ==
    /\ [][\A task_id \in NamedIds : SendStep(task_id) => task_id \in owed]_vars
    /\ [](\A t \in tasks : t.id \in owed => t.reminded_at = NoTime)

\* the job has just sent a reminder
JustSent ==
    /\ last.op = "reminder_job"
    /\ last.out.reply = "sent"
    /\ reminder.pc = "set_reminded"

\* C33: at the moment a reminder is sent its task exists, is pending and is
\* due, whatever the handlers and the web application did meanwhile
ReminderOnlyForDueTask ==
    JustSent =>
        \E t \in tasks : /\ t.id = last.out.id
                         /\ t.status = "pending"
                         /\ t.due_at /= NoTime
                         /\ t.due_at <= to_utc_iso(now_local)

(***************************************************************************)
(* The writes of the pending branch, one at a time (Spec).  Each write is  *)
(* a transaction of its own (db.py: execute commits), so a handler that    *)
(* fails leaves the tables as they are after a prefix of its writes.       *)
(***************************************************************************)

\* the tables after the first k writes
ExecPrefix(db, writes, k, clock) == ExecAll(db, SubSeq(writes, 1, k), 1, clock)

\* the title is in the pending store or in the task store
TitleStored(db, title) ==
    \/ \E p \in db.pending_tasks : p.title = title
    \/ \E t \in db.tasks : t.title = title

\* C34: in the pending branch the task is created before the record is
\* cleared: after every prefix of the writes of a message that read a pending
\* record, the draft title is in the pending store or in the task store
DraftNeverLost ==
    [][(last'.op = "message" /\ last'.pending /= NoRow) =>
          \A k \in 0..Len(last'.out.writes) :
              TitleStored(ExecPrefix(Database, last'.out.writes, k, last'.now),
                          last'.pending.title)]_vars

\* a date answer has turned the draft into a task: the record is gone and the
\* title is in the task store only
DraftSavedReached ==
    /\ HadPending
    /\ last.out.reply = "saved"
    /\ Len(last.out.writes) = 2
    /\ \E t \in tasks : t.title = last.pending.title /\ t.due_at = to_utc_iso(last.out.due_at)
    /\ \A p \in pending_tasks : p.title /= last.pending.title

(***************************************************************************)
(* Properties of the writers of tasks (CallSpec)                           *)
(***************************************************************************)

\* a writer of tasks has returned
Wrote == last.op = "return" /\ last.fn \in TaskWriters

\* the functions that look the row up first
Lookups == {"mark_done", "delete_task", "snooze_task"}

\* C35: status is monotonic: a new row is pending, mark_done makes its row
\* done, and no writer turns a done row back to pending; mark_done,
\* delete_task and snooze_task on an id without a row return False and leave
\* the table as it is
StatusMonotonic ==
    Wrote =>
        /\ \A t \in last.rows : \A u \in last.out.rows :
               (u.id = t.id /\ t.status = "done") => u.status = "done"
        /\ \A u \in last.out.rows :
               ~RowFound(last.rows, u.id) => u.status = "pending"
        /\ (last.fn = "mark_done" /\ RowFound(last.rows, last.task_id)) =>
               /\ last.out.result = TRUE
               /\ get_task(last.out.rows, last.task_id).status = "done"
        /\ (last.fn \in Lookups /\ ~RowFound(last.rows, last.task_id)) =>
               /\ last.out.result = FALSE
               /\ last.out.rows = last.rows

\* snooze_task has returned True for a task that is done, and the task is
\* still done
SnoozedDoneTaskReached ==
    /\ Returned("snooze_task")
    /\ last.out.result = TRUE
    /\ get_task(last.rows, last.task_id).status = "done"
    /\ get_task(last.out.rows, last.task_id).status = "done"
    /\ get_task(last.out.rows, last.task_id).reminded_at = NoTime

(***************************************************************************)
(* Properties of the paper scanner (ScanSpec)                              *)
(***************************************************************************)

\* a run of scan_papers has started
Scanned == scan.pc /= "idle"

\* no two rows of papers have the same (source, source_id), and no run has
\* counted a paper as new that an earlier count had
StoredAndCountedOnce ==
    /\ \A p, q \in papers : (p.source = q.source /\ p.source_id = q.source_id) => p = q
    /\ \A key \in PaperKeys : counted[key] <= 1

\* a failed analysis leaves the budget alone (the budget has gone down by the
\* analyses that succeeded) and the scan returns only when no paper is left
FailureIsSkipped ==
    Scanned =>
        /\ scan.analysis_budget = max_papers_per_day - scan.analyzed
        /\ scan.pc = "returned" => scan.queue = <<>>

\* C36, as stated: a paper is stored and counted at most once; in every run
\* analyzed <= new_papers and analyzed <= max_papers_per_day; a failed
\* analysis neither consumes the budget nor aborts the scan
ScanCountsAsStated ==
    /\ StoredAndCountedOnce
    /\ FailureIsSkipped
    /\ Scanned => /\ scan.analyzed <= scan.new_papers
                  /\ scan.analyzed <= max_papers_per_day

\* C36, amended: the same, with analyzed <= max(max_papers_per_day, 0), since
\* a negative MAX_PAPERS_PER_DAY is a setting too and gives analyzed = 0
ScanCounts ==
    /\ StoredAndCountedOnce
    /\ FailureIsSkipped
    /\ Scanned => /\ scan.analyzed <= scan.new_papers
                  /\ scan.analyzed <= (IF max_papers_per_day > 0
                                       THEN max_papers_per_day ELSE 0)

\* a second run has returned after an analysis failed in it: the papers of
\* the first run were not stored again, the budget went to the analyses that
\* succeeded
SecondScanReached ==
    /\ scan.pc = "returned"
    /\ scan.failed > 0
    /\ scan.analyzed = max_papers_per_day
    /\ scan.new_papers > scan.analyzed
    /\ Cardinality(papers) > scan.new_papers

====
